---- MODULE Spec2Model ----
(***************************************************************************)
(* Deck-planning pipeline of DeckSmith Pro (server/lib/planner.js and the  *)
(* POST /api/plan handler of server/index.js).                             *)
(*                                                                         *)
(* JavaScript values are tagged records: Undef, Null, Str(s), Num(n), NaN, *)
(* Bool(b), Arr(a) and Obj(o), where o is a function from property names  *)
(* to values (a missing property is a name outside DOMAIN o).  Strings are *)
(* TLA+ strings, read character by character with Len and SubSeq.          *)
(* Numbers are integers.                                                   *)
(***************************************************************************)
EXTENDS Integers, Sequences, FiniteSets, TLC

VARIABLES
  pc,         \* where the run stands
  brief,      \* briefText of the request
  options,    \* the options object
  extract,    \* brief facts (extract stage)
  narrative,  \* narrative plan as handed on (after the narrative lock)
  messaging,  \* messaging map
  plan,       \* the deck plan as it stands (draft, edited, locked, refined)
  calls,      \* generation calls issued so far: [stage, backend, answer]
  conceptAnswer, \* what the concept regeneration call answered
  out,        \* result of normalizePlan (or of the function under study)
  out2,       \* result of normalizePlan applied to out
  response,   \* HTTP response of POST /api/plan
  arg,        \* argument of the pure function under study (a line, a kind)
  exportJobs, \* ids of the export jobs in the exportJobs map
  jobs,       \* the job objects, by id (a job dropped from the map lives on)
  kick,       \* id of the job whose export has been created but not yet started, 0 when none
  streams,    \* the SSE responses of GET /api/export_job/:id/stream
  reply,      \* reply of the last GET /api/export_job/:id/pptx
  files,      \* the image files of the shared temp directory
  exports     \* the exportPptx runs that use the temp directory

plannerVars == <<pc, brief, options, extract, narrative, messaging, plan, calls, conceptAnswer, out, out2,
          response, arg>>

serverVars == <<exportJobs, jobs, kick, streams, reply, files, exports>>

vars == <<plannerVars, serverVars>>

\* the variables of a planning request that a pure-function run leaves alone
requestVars == <<brief, extract, narrative, messaging, calls, conceptAnswer, response, arg>>

\* no export job, no stream and an empty temp directory: the server as the
\* planner runs find it
ServerIdle ==
  /\ exportJobs = {}
  /\ jobs = <<>>
  /\ kick = 0
  /\ streams = <<>>
  /\ reply = [code |-> 0]
  /\ files = <<>>
  /\ exports = <<>>

-----------------------------------------------------------------------------
(* JavaScript values and the language operations the planner relies on.    *)

Undef == [t |-> "undef"]
Null == [t |-> "null"]
NaN == [t |-> "nan"]
Str(s) == [t |-> "str", s |-> s]
Num(n) == [t |-> "num", n |-> n]
Bool(b) == [t |-> "bool", b |-> b]
Arr(a) == [t |-> "arr", a |-> a]
Obj(o) == [t |-> "obj", o |-> o]
\* The value a throwing call leaves in place of its result.
Throw == [t |-> "throw"]

Min(a, b) == IF a <= b THEN a ELSE b
Max(a, b) == IF a >= b THEN a ELSE b

\* x.slice(0, max) on a string or an array.
Slice(x, max) == SubSeq(x, 1, Min(Len(x), max))

Ch(s, i) == SubSeq(s, i, i)

UpperChars == "ABCDEFGHIJKLMNOPQRSTUVWXYZ"
LowerChars == "abcdefghijklmnopqrstuvwxyz"
Digits == "0123456789"

LowerOf == [c \in {Ch(UpperChars, i) : i \in 1..26} |->
              Ch(LowerChars, CHOOSE i \in 1..26 : Ch(UpperChars, i) = c)]

ToLowerCh(c) == IF c \in DOMAIN LowerOf THEN LowerOf[c] ELSE c

RECURSIVE ToLower(_)
ToLower(s) ==
  IF Len(s) = 0 THEN "" ELSE ToLowerCh(Ch(s, 1)) \o ToLower(SubSeq(s, 2, Len(s)))

IsSpace(c) == c \in {" ", "\n", "\t", "\r"}

RECURSIVE TrimStart(_)
TrimStart(s) ==
  IF Len(s) > 0 /\ IsSpace(Ch(s, 1)) THEN TrimStart(SubSeq(s, 2, Len(s))) ELSE s

RECURSIVE TrimEnd(_)
TrimEnd(s) ==
  IF Len(s) > 0 /\ IsSpace(Ch(s, Len(s))) THEN TrimEnd(SubSeq(s, 1, Len(s) - 1)) ELSE s

Trim(s) == TrimEnd(TrimStart(s))

\* s.includes(sub)
Includes(s, sub) ==
  \E i \in 1..(Len(s) - Len(sub) + 1) : SubSeq(s, i, i + Len(sub) - 1) = sub

\* arr.includes(x) on a sequence
InSeq(x, seq) == \E i \in 1..Len(seq) : seq[i] = x

DigitOf == [c \in {Ch(Digits, i) : i \in 1..10} |->
              (CHOOSE i \in 1..10 : Ch(Digits, i) = c) - 1]

IsDigit(c) == c \in DOMAIN DigitOf
DigitVal(c) == DigitOf[c]

RECURSIVE NatToStr(_)
NatToStr(n) ==
  IF n < 10 THEN Ch(Digits, n + 1) ELSE NatToStr(n \div 10) \o Ch(Digits, (n % 10) + 1)

IntToStr(n) == IF n < 0 THEN "-" \o NatToStr(0 - n) ELSE NatToStr(n)

RECURSIVE DigitsToNat(_)
DigitsToNat(s) ==
  IF Len(s) = 0 THEN 0
  ELSE 10 * DigitsToNat(SubSeq(s, 1, Len(s) - 1)) + DigitVal(Ch(s, Len(s)))

Nullish(v) == v.t \in {"undef", "null"}

Truthy(v) ==
  CASE v.t \in {"undef", "null", "nan"} -> FALSE
    [] v.t = "str" -> v.s # ""
    [] v.t = "num" -> v.n # 0
    [] v.t = "bool" -> v.b
    [] OTHER -> TRUE

\* a || b
OrElse(a, b) == IF Truthy(a) THEN a ELSE b
\* a ?? b
Coalesce(a, b) == IF Nullish(a) THEN b ELSE a

IsArray(v) == v.t = "arr"

\* v?.f : undefined for null and undefined, and for a property a value lacks.
\* The planner reads only data properties by name, so a string or an array
\* (which own just length and index properties) yields undefined.
Get(v, f) == IF v.t = "obj" /\ f \in DOMAIN v.o THEN v.o[f] ELSE Undef

RECURSIVE ToStringJS(_)
RECURSIVE JoinJS(_)
\* v.toString() for a value that is neither null nor undefined.
ToStringJS(v) ==
  CASE v.t = "str" -> v.s
    [] v.t = "num" -> IntToStr(v.n)
    [] v.t = "nan" -> "NaN"
    [] v.t = "bool" -> IF v.b THEN "true" ELSE "false"
    [] v.t = "arr" -> JoinJS(v.a)
    [] OTHER -> "[object Object]"

\* Array.prototype.join(","): null and undefined elements render as "".
JoinJS(a) ==
  IF Len(a) = 0 THEN ""
  ELSE LET h == IF Nullish(a[1]) THEN "" ELSE ToStringJS(a[1])
       IN IF Len(a) = 1 THEN h ELSE h \o "," \o JoinJS(Tail(a))

\* +v (ToNumber): [finite, n].  Strings are decimal digit strings or blank.
ToNumber(v) ==
  CASE v.t = "num" -> [finite |-> TRUE, n |-> v.n]
    [] v.t = "null" -> [finite |-> TRUE, n |-> 0]
    [] v.t = "bool" -> [finite |-> TRUE, n |-> IF v.b THEN 1 ELSE 0]
    [] v.t = "str" ->
         LET s == Trim(v.s)
         IN IF \A i \in 1..Len(s) : IsDigit(Ch(s, i))
            THEN [finite |-> TRUE, n |-> DigitsToNat(s)]
            ELSE [finite |-> FALSE, n |-> 0]
    [] v.t = "arr" /\ Len(v.a) = 0 -> [finite |-> TRUE, n |-> 0]
    [] OTHER -> [finite |-> FALSE, n |-> 0]

\* Number(v) as a value
NumberJS(v) == IF ToNumber(v).finite THEN Num(ToNumber(v).n) ELSE NaN

\* {...v}: the own enumerable properties of v (index keys for strings/arrays).
SpreadOf(v) ==
  CASE v.t = "obj" -> v.o
    [] v.t = "arr" ->
         [k \in {NatToStr(i - 1) : i \in 1..Len(v.a)} |->
            v.a[CHOOSE i \in 1..Len(v.a) : NatToStr(i - 1) = k]]
    [] v.t = "str" ->
         [k \in {NatToStr(i - 1) : i \in 1..Len(v.s)} |->
            Str(Ch(v.s, CHOOSE i \in 1..Len(v.s) : NatToStr(i - 1) = k))]
    [] OTHER -> <<>>

\* {...a, ...b}: b's properties win.
Merge(a, b) == [k \in (DOMAIN a) \cup (DOMAIN b) |-> IF k \in DOMAIN b THEN b[k] ELSE a[k]]

MapSeq(F(_), a) == [i \in 1..Len(a) |-> F(a[i])]

RECURSIVE FilterSeq(_, _)
FilterSeq(P(_), a) ==
  IF Len(a) = 0 THEN <<>>
  ELSE IF P(a[1]) THEN <<a[1]>> \o FilterSeq(P, Tail(a)) ELSE FilterSeq(P, Tail(a))

\* an insertion that moves the displaced element to the end of the list
InsertDisplacing(a, pos, item) ==
  IF pos >= Len(a) THEN Append(a, item)
  ELSE SubSeq(a, 1, pos) \o <<item>> \o SubSeq(a, pos + 2, Len(a)) \o <<a[pos + 1]>>

\* arr.splice(pos, 0, item), pos counted from 0
InsertAt(a, pos, item) == SubSeq(a, 1, pos) \o <<item>> \o SubSeq(a, pos + 1, Len(a))

\* arr.splice(i, 1), i counted from 0
RemoveAt(a, i) == SubSeq(a, 1, i) \o SubSeq(a, i + 2, Len(a))

-----------------------------------------------------------------------------
(* Shared helpers of the planner.                                          *)

SAFE_MAX_SLIDES == 30

asStr(v, max) == Slice(ToStringJS(Coalesce(v, Str(""))), max)

clampInt(n, lo, hi, fallback) ==
  LET x == IF ToNumber(n).finite THEN ToNumber(n).n ELSE fallback
  IN Max(lo, Min(hi, x))

SLIDE_LAYOUTS ==
  << "hero", "split", "full_bleed", "quote", "stats", "two_column",
     "agency_center", "agency_half", "agency_infographic",
     "section_header", "agenda", "cards", "image_caption", "timeline",
     "kpi_dashboard", "traffic_light", "table", "pricing", "comparison_matrix",
     "process_steps", "team_grid", "logo_wall", "cta",
     "swot", "funnel", "now_next_later", "okr", "case_study", "chart_bar",
     "chart_line", "diagram", "org_chart", "faq", "appendix", "infographic_3" >>

-----------------------------------------------------------------------------
(* Normalization (safe for renderer).                                      *)

defaultTheme ==
  [ vibe |-> Str("Modern, premium"),
    primary_color |-> Str("#0B0F1A"),
    secondary_color |-> Str("#2A7FFF"),
    font_heading |-> Str("Aptos Display"),
    font_body |-> Str("Aptos") ]

\* idx counts from 0, as in the source.
defaultSlide(idx) ==
  [ kind |-> Str(IF idx = 0 THEN "cover" ELSE "content"),
    layout |-> Str(IF idx = 0 THEN "hero" ELSE "split"),
    section |-> Str(""),
    setup_line |-> Str(""),
    takeaway |-> Str(""),
    bridge_line |-> Str(""),
    title |-> Str(IF idx = 0 THEN "Title" ELSE "Slide " \o IntToStr(idx + 1)),
    subtitle |-> Str(""),
    bullets |-> Arr(<<>>),
    stat |-> Null,
    quote |-> Null,
    agenda_items |-> Null,
    cards |-> Null,
    timeline_items |-> Null,
    kpis |-> Null,
    status_items |-> Null,
    table |-> Null,
    pricing |-> Null,
    matrix |-> Null,
    steps |-> Null,
    people |-> Null,
    logo_items |-> Null,
    cta |-> Null,
    swot |-> Null,
    funnel |-> Null,
    now_next_later |-> Null,
    okrs |-> Null,
    case_study |-> Null,
    diagram |-> Null,
    icons |-> Null,
    chart |-> Null,
    org_chart |-> Null,
    faq |-> Null,
    image_prompt |-> Str("Abstract premium background related to the slide topic"),
    speaker_notes |-> Str("") ]

\* the kind as text, case kept
RawKind(kind) == ToStringJS(OrElse(kind, Str("")))

\* (kind || '').toString().toLowerCase()
LowerKind(kind) == ToLower(ToStringJS(OrElse(kind, Str(""))))

\* one `if (k.includes(...)) return ...` after the other: the first that holds returns
inferLayoutFromKind(kind) ==
  LET k == LowerKind(kind)
      has(w) == Includes(k, w)
  IN IF has("cover") THEN Str("hero")
     ELSE IF has("agenda") THEN Str("agenda")
     ELSE IF has("section") THEN Str("section_header")
     ELSE IF has("timeline") \/ has("roadmap") THEN Str("timeline")
     ELSE IF has("swot") THEN Str("swot")
     ELSE IF has("funnel") THEN Str("funnel")
     ELSE IF has("now") /\ has("next") /\ has("later") THEN Str("now_next_later")
     ELSE IF has("okr") \/ has("okrs") THEN Str("okr")
     ELSE IF has("case study") \/ has("casestudy") THEN Str("case_study")
     ELSE IF has("chart") \/ has("trend") THEN Str("chart_line")
     ELSE IF has("diagram") \/ has("flow") THEN Str("diagram")
     ELSE IF has("org") \/ has("organisation") \/ has("organization") THEN Str("org_chart")
     ELSE IF has("faq") \/ has("q&a") THEN Str("faq")
     ELSE IF has("kpi") \/ has("metrics") \/ has("dashboard") THEN Str("kpi_dashboard")
     ELSE IF has("status") \/ has("ryg") \/ has("traffic") THEN Str("traffic_light")
     ELSE IF has("pricing") \/ has("package") THEN Str("pricing")
     ELSE IF has("comparison") \/ has("matrix") THEN Str("comparison_matrix")
     ELSE IF has("process") \/ has("steps") THEN Str("process_steps")
     ELSE IF has("team") THEN Str("team_grid")
     ELSE IF has("clients") \/ has("logos") THEN Str("logo_wall")
     ELSE IF has("pillar") \/ has("infographic") THEN Str("infographic_3")
     ELSE IF has("cta") \/ has("next steps") \/ has("contact") THEN Str("cta")
     ELSE Null

\* c => ({ f: asStr(c?.f, caps[f]) , ... }) for the fields f of caps
StrFields(c, caps) == Obj([f \in DOMAIN caps |-> Str(asStr(Get(c, f), caps[f]))])

\* Array.isArray(v) ? v.slice(0, cap).map(c => ({...})) : null
ObjList(v, cap, caps) ==
  IF IsArray(v) THEN Arr(MapSeq(LAMBDA c : StrFields(c, caps), Slice(v.a, cap))) ELSE Null

\* v.slice(0, cap).map(x => asStr(x, max)).filter(Boolean)
StrList(a, cap, max) ==
  FilterSeq(LAMBDA x : Truthy(x), MapSeq(LAMBDA x : Str(asStr(x, max)), Slice(a, cap)))

\* v.slice(0, cap).map(x => asStr(x, max)), nothing filtered out
StrListAll(a, cap, max) == MapSeq(LAMBDA x : Str(asStr(x, max)), Slice(a, cap))

StatusOf(it) ==
  LET st == ToLower(ToStringJS(OrElse(Get(it, "status"), Str(""))))
  IN IF st \in {"red", "yellow", "green"} THEN st ELSE "yellow"

NoImageLayouts ==
  { "kpi_dashboard", "traffic_light", "table", "pricing", "comparison_matrix",
    "process_steps", "team_grid", "logo_wall", "swot", "funnel", "now_next_later",
    "okr", "chart_bar", "chart_line", "diagram", "org_chart", "faq", "case_study",
    "appendix", "infographic_3" }

\* the layout taken as read, without the membership test
UncheckedLayout(layoutRaw, base) == layoutRaw

\* `SLIDE_LAYOUTS.includes(layoutRaw) ? layoutRaw : base.layout`
SafeLayout(layoutRaw, base) ==
  IF InSeq(layoutRaw, SLIDE_LAYOUTS) THEN layoutRaw ELSE base.layout.s

\* The callback of (plan.slides || []).map((s, idx) => ...), idx from 0.
NormalizeSlide(s, idx) ==
  LET base == defaultSlide(idx)
      kind == asStr(OrElse(Get(s, "kind"), base.kind), 60)
      inferred == inferLayoutFromKind(Str(kind))
      layoutRaw == asStr(OrElse(OrElse(Get(s, "layout"), inferred), base.layout), 40)
      layout == SafeLayout(layoutRaw, base)
      tbl == Get(s, "table")
      dg == Get(s, "diagram")
      chart == Get(s, "chart")
      prompt == asStr(Coalesce(Get(s, "image_prompt"), base.image_prompt), 800)
      safe ==
        [ kind |-> Str(kind),
          layout |-> Str(layout),
          title |-> Str(asStr(OrElse(Get(s, "title"), base.title), 140)),
          subtitle |-> Str(asStr(OrElse(Get(s, "subtitle"), Str("")), 240)),
          bullets |-> IF IsArray(Get(s, "bullets"))
                      THEN Arr(StrList(Get(s, "bullets").a, 8, 180)) ELSE Arr(<<>>),
          stat |-> Coalesce(Get(s, "stat"), Null),
          quote |-> Coalesce(Get(s, "quote"), Null),
          agenda_items |-> IF IsArray(Get(s, "agenda_items"))
                           THEN Arr(StrList(Get(s, "agenda_items").a, 10, 120)) ELSE Null,
          cards |-> ObjList(Get(s, "cards"), 6, [title |-> 80, body |-> 220, tag |-> 40]),
          timeline_items |-> ObjList(Get(s, "timeline_items"), 12,
                                     [date_or_phase |-> 40, label |-> 80, detail |-> 140]),
          kpis |-> ObjList(Get(s, "kpis"), 8, [label |-> 60, value |-> 40, delta |-> 30]),
          status_items |->
            IF IsArray(Get(s, "status_items"))
            THEN Arr(MapSeq(LAMBDA it :
                       Obj([ item |-> Str(asStr(Get(it, "item"), 90)),
                             status |-> Str(StatusOf(it)),
                             owner |-> Str(asStr(Get(it, "owner"), 40)),
                             eta |-> Str(asStr(Get(it, "eta"), 30)),
                             blocker |-> Str(asStr(Get(it, "blocker"), 120)) ]),
                     Slice(Get(s, "status_items").a, 12)))
            ELSE Null,
          table |->
            IF Truthy(tbl) /\ IsArray(Get(tbl, "headers")) /\ IsArray(Get(tbl, "rows"))
            THEN Obj([ headers |-> Arr(StrListAll(Get(tbl, "headers").a, 6, 40)),
                       rows |-> Arr(FilterSeq(LAMBDA r : Len(r.a) >= 2,
                                  MapSeq(LAMBDA r : IF IsArray(r)
                                                    THEN Arr(StrListAll(r.a, 6, 40))
                                                    ELSE Arr(<<>>),
                                         Slice(Get(tbl, "rows").a, 12)))) ])
            ELSE Null,
          pricing |-> Coalesce(Get(s, "pricing"), Null),
          matrix |-> Coalesce(Get(s, "matrix"), Null),
          steps |-> ObjList(Get(s, "steps"), 8, [title |-> 70, detail |-> 160]),
          people |-> ObjList(Get(s, "people"), 10, [name |-> 60, role |-> 60, bio |-> 200]),
          logo_items |-> IF IsArray(Get(s, "logo_items"))
                         THEN Arr(StrList(Get(s, "logo_items").a, 30, 40)) ELSE Null,
          cta |-> Coalesce(Get(s, "cta"), Null),
          swot |-> Coalesce(Get(s, "swot"), Null),
          funnel |-> ObjList(Get(s, "funnel"), 7, [label |-> 60, value |-> 40]),
          now_next_later |-> Coalesce(Get(s, "now_next_later"), Null),
          okrs |->
            IF IsArray(Get(s, "okrs"))
            THEN Arr(MapSeq(LAMBDA o :
                       Obj([ objective |-> Str(asStr(Get(o, "objective"), 120)),
                             key_results |->
                               IF IsArray(Get(o, "key_results"))
                               THEN Arr(StrList(Get(o, "key_results").a, 6, 160))
                               ELSE Arr(<<>>) ]),
                     Slice(Get(s, "okrs").a, 5)))
            ELSE Null,
          case_study |-> Coalesce(Get(s, "case_study"), Null),
          diagram |->
            IF Truthy(dg)
            THEN Obj([ code |-> Str(asStr(OrElse(Get(dg, "code"), Str("")), 4000)),
                       theme |-> Str(asStr(OrElse(Get(dg, "theme"), Str("")), 40)) ])
            ELSE Null,
          icons |->
            IF IsArray(Get(s, "icons"))
            THEN Arr(MapSeq(LAMBDA ic :
                       Obj([ name |-> Str(asStr(OrElse(Get(ic, "name"), Str("")), 120)),
                             label |-> Str(asStr(OrElse(Get(ic, "label"), Str("")), 80)) ]),
                     Slice(Get(s, "icons").a, 6)))
            ELSE Null,
          chart |->
            IF Truthy(chart)
            THEN Obj([ chart_type |-> Str(asStr(OrElse(Get(chart, "chart_type"), Str("")), 20)),
                       labels |-> IF IsArray(Get(chart, "labels"))
                                  THEN Arr(StrListAll(Get(chart, "labels").a, 10, 80))
                                  ELSE Arr(<<>>),
                       values |-> IF IsArray(Get(chart, "values"))
                                  THEN Arr(MapSeq(NumberJS, Slice(Get(chart, "values").a, 10)))
                                  ELSE Arr(<<>>),
                       value_suffix |-> Str(asStr(OrElse(Get(chart, "value_suffix"), Str("")), 20)),
                       spec |-> Coalesce(Get(chart, "spec"), Null) ])
            ELSE Null,
          org_chart |-> Coalesce(Get(s, "org_chart"), Null),
          faq |-> ObjList(Get(s, "faq"), 8, [q |-> 140, a |-> 220]),
          image_prompt |->
            \* data-heavy layouts default to no image unless one is given
            IF layout \in NoImageLayouts /\ (Trim(prompt) = "" \/ ToLower(Trim(prompt)) = "none")
            THEN Str("NONE") ELSE Str(prompt),
          speaker_notes |-> Str(asStr(Coalesce(Get(s, "speaker_notes"), Str("")), 1600)) ]
  IN Obj(Merge(base, safe))

\* The three-point summary slide spliced in when no slide is an infographic.
AnchorInfographic ==
  Obj([ kind |-> Str("infographic_summary"),
        layout |-> Str("infographic_3"),
        title |-> Str("Speak Locally. Resonate Nationally."),
        subtitle |-> Str("Our strategy turns complexity into three simple pillars:"),
        cards |-> Arr(<<
          Obj([ title |-> Str("Hyper-Local Pride"),
                body |-> Str("Celebrate unique identity and local cues."),
                tag |-> Str("pin") ]),
          Obj([ title |-> Str("Universal Invitation"),
                body |-> Str("Unify the campaign under one idea."),
                tag |-> Str("signal") ]),
          Obj([ title |-> Str("Simplicity & Clarity"),
                body |-> Str("Make the call-to-action unforgettable."),
                tag |-> Str("hashtag") ]) >>),
        image_prompt |-> Str("NONE"),
        speaker_notes |-> Str("") ])

\* The pull-quote slide spliced in when no slide is a quote.
AnchorQuote(p) ==
  LET ex == Get(p, "_extract")
      quoteText ==
        asStr(OrElse(OrElse(Get(ex, "objective"), Get(ex, "source_summary")),
                     Str("A single, memorable idea beats a dozen scattered messages.")), 260)
  IN Obj([ kind |-> Str("quote"),
           layout |-> Str("quote"),
           title |-> Str("Key Thought"),
           subtitle |-> Str(""),
           quote |-> Obj([ text |-> Str(quoteText), attribution |-> Str("") ]),
           image_prompt |-> Str("Abstract premium background, subtle texture, no text"),
           speaker_notes |-> Str("") ])

KindLower(s) == ToLower(ToStringJS(OrElse(Get(s, "kind"), Str(""))))

\* The body of `if (deckType !== 'ad_agency') { ... }`
InjectAnchors(slides, p) ==
  LET hasQuote ==
        \E i \in 1..Len(slides) :
          Get(slides[i], "layout") = Str("quote") \/ Includes(KindLower(slides[i]), "quote")
      hasInfographic ==
        \E i \in 1..Len(slides) :
          Get(slides[i], "layout") = Str("infographic_3")
            \/ Includes(KindLower(slides[i]), "pillar")
      s1 == IF ~hasInfographic
            THEN InsertAt(slides, Min(2, Len(slides)), AnchorInfographic)
            ELSE slides
      s2 == IF ~hasQuote
            THEN InsertAt(s1, Min(Max(Len(s1) - 1, 1), Len(s1)), AnchorQuote(p))
            ELSE s1
  IN s2

IsAnchorLayout(s) ==
  ToLower(ToStringJS(OrElse(Get(s, "layout"), Str("")))) \in {"quote", "infographic_3"}

\* while (slides.length > requestedSlides) { remove the last non-anchor slide }
RECURSIVE TrimSlides(_, _)
TrimSlides(slides, requestedSlides) ==
  IF Len(slides) <= requestedSlides THEN slides
  ELSE LET cands == {i \in 1..Len(slides) : ~IsAnchorLayout(slides[i])}
       IN IF cands = {} THEN slides
          ELSE TrimSlides(RemoveAt(slides, (CHOOSE i \in cands : \A j \in cands : j <= i) - 1),
                          requestedSlides)

normalizePlan(p, opts) ==
  LET requestedSlides ==
        clampInt(Coalesce(Coalesce(Get(opts, "nSlides"), Get(p, "recommended_slide_count")),
                          IF IsArray(Get(p, "slides")) THEN Num(Len(Get(p, "slides").a))
                          ELSE Num(10)),
                 5, SAFE_MAX_SLIDES, 10)
      deckType ==
        Trim(ToLower(asStr(
          OrElse(OrElse(OrElse(OrElse(Get(p, "deck_type"), Get(opts, "deckType")),
                               Get(opts, "deck_type")),
                        Get(Get(p, "_extract"), "deck_type_suggestion")),
                 Str("other")), 80)))
      theme0 == Merge(defaultTheme, SpreadOf(OrElse(Get(p, "theme"), Obj(<<>>))))
      theme == IF Truthy(Get(opts, "deckStyle")) /\ ~Truthy(Get(Obj(theme0), "deck_style"))
               THEN Merge(theme0, [deck_style |-> Get(opts, "deckStyle")])
               ELSE theme0
      raw == OrElse(Get(p, "slides"), Arr(<<>>))
      mapped == [i \in 1..Len(raw.a) |-> NormalizeSlide(raw.a[i], i - 1)]
      injected == IF deckType # "ad_agency" THEN InjectAnchors(mapped, p) ELSE mapped
      slides == Slice(TrimSlides(injected, requestedSlides), requestedSlides)
  IN \* plan.deck_type on null or undefined is a TypeError
     IF Nullish(p) THEN Throw
     \* (plan.slides || []).map is not a function unless the value is an array
     ELSE IF ~IsArray(raw) THEN Throw
     ELSE Obj([ deck_type |-> Str(deckType),
                deck_title |-> Str(asStr(OrElse(OrElse(Get(p, "deck_title"),
                                                       Get(Get(p, "_extract"), "title")),
                                                Str("Untitled Deck")), 140)),
                deck_subtitle |-> Str(asStr(OrElse(OrElse(Get(p, "deck_subtitle"),
                                                          Get(Get(p, "_extract"), "subtitle")),
                                                   Str("")), 200)),
                recommended_slide_count |->
                  Num(clampInt(Coalesce(Get(p, "recommended_slide_count"), Num(requestedSlides)),
                               5, SAFE_MAX_SLIDES, requestedSlides)),
                theme |-> Obj(theme),
                slides |-> Arr(slides),
                brand_logo |-> OrElse(OrElse(Get(p, "brand_logo"),
                                             Get(Get(p, "theme"), "brand_logo")), Null),
                _extract |-> OrElse(Get(p, "_extract"), Null) ])

-----------------------------------------------------------------------------
(* Inputs of the normalization runs: plan-shaped values as a generation    *)
(* stage, or a caller of the exported normalizePlan, can hand them over.   *)

\* plain body slides following the head: 0..MaxFillLow, or close to the cap
MaxFillLow == 6
\* how far the slide count may exceed SAFE_MAX_SLIDES
MaxOver == 1

RECURSIVE Rep(_, _)
Rep(s, n) == IF n = 0 THEN "" ELSE s \o Rep(s, n - 1)

SlideContent ==
  Obj([ kind |-> Str("content"), layout |-> Str("split"), title |-> Str("Market Overview"),
        subtitle |-> Str("Where we play"), bullets |-> Arr(<<Str("One"), Str("Two")>>),
        stat |-> Obj([value |-> Str("42%"), label |-> Str("share")]),
        image_prompt |-> Str("city skyline"), speaker_notes |-> Str("notes") ])

\* a layout outside SLIDE_LAYOUTS and a kind that names a layout
SlideKpiBadLayout ==
  Obj([ kind |-> Str("Q3 KPI Dashboard"), layout |-> Str("bogus"), title |-> Str("Numbers"),
        kpis |-> Arr(<<Obj([label |-> Str("MAU"), value |-> Str("10k"), delta |-> Str("+3%")])>>),
        image_prompt |-> Str(" none ") ])

SlideQuote ==
  Obj([ kind |-> Str("Customer Quote"), layout |-> Str("quote"), title |-> Str("In their words"),
        quote |-> Obj([text |-> Str("It works."), attribution |-> Str("A client")]) ])

SlidePillars ==
  Obj([ kind |-> Str("Strategy Pillars"), title |-> Str("Three pillars"),
        cards |-> Arr(<<Obj([title |-> Str("A"), body |-> Str("a"), tag |-> Str("x")]), Null>>) ])

\* fields of the wrong type, over-long values
SlideWrongTypes ==
  Obj([ kind |-> Num(7), layout |-> Num(3), title |-> Str(Rep("Long title ", 14)),
        subtitle |-> Arr(<<Str("a"), Null, Num(2)>>),
        bullets |-> Arr(<<Str("b1"), Str(""), Num(3), Null, Str("b5"), Str("b6"), Str("b7"),
                          Str("b8"), Str("b9")>>),
        stat |-> Str("12%"), quote |-> Num(0), cards |-> Str("none"),
        table |-> Obj([ headers |-> Arr(<<Str("h1"), Str("h2")>>),
                        rows |-> Arr(<<Arr(<<Str("1"), Num(2)>>), Str("row"), Arr(<<Str("x")>>)>>) ]),
        status_items |-> Arr(<<Obj([item |-> Str("API"), status |-> Str("GREEN")]), Null>>),
        diagram |-> Str("graph TD"), chart |-> Bool(TRUE),
        okrs |-> Arr(<<Obj([objective |-> Str("Grow"), key_results |-> Str("kr")])>>),
        image_prompt |-> Null, speaker_notes |-> Num(5) ])

HeadSamples ==
  { Null, Obj(<<>>), SlideContent, SlideKpiBadLayout, SlideQuote, SlidePillars, SlideWrongTypes }

\* the i-th plain body slide
BodySlide(i) ==
  Obj([ kind |-> Str("content"), layout |-> Str("two_column"),
        title |-> Str("Body " \o IntToStr(i)), section |-> Str("Story") ])

\* the longest run of pull-quote slides a plan opens with: one more than the
\* smallest target count
MaxAnchors == 6

\* the slides a plan opens with
Heads ==
  {<<>>} \cup { <<s>> : s \in HeadSamples }
    \cup { <<SlideQuote, SlidePillars>>, <<SlideContent, SlideKpiBadLayout>>,
           <<SlideQuote, SlideWrongTypes>>, <<SlideContent>> \o [i \in 1..MaxAnchors |-> SlideQuote] }

FillCounts ==
  (0..MaxFillLow) \cup ((SAFE_MAX_SLIDES - 1)..(SAFE_MAX_SLIDES + MaxOver))

SlideLists == { h \o [i \in 1..r |-> BodySlide(i)] : h \in Heads, r \in FillCounts }

ExtractSample ==
  Obj([ deck_type_suggestion |-> Str("sales_deck"), title |-> Str("Relaunch"),
        subtitle |-> Str("2026"), objective |-> Str("Win Gen Z listeners") ])

\* the plan's fields other than slides
PlanShells ==
  { <<>>,
    [ deck_type |-> Str("ad_agency"), deck_title |-> Str("Pitch") ],
    [ deck_type |-> Str("  "), recommended_slide_count |-> Num(7), _extract |-> ExtractSample,
      theme |-> Obj([vibe |-> Str("Bold"), brand_logo |-> Str("logo.png")]) ] }

\* plans whose slides field is missing or is not an array, and non-object plans
OddPlans ==
  { Null, Undef, Num(5), Str("plan"), Obj(<<>>),
    Obj([slides |-> Null]), Obj([slides |-> Str("")]), Obj([slides |-> Str("abc")]),
    Obj([slides |-> Num(3)]), Obj([slides |-> Obj([length |-> Num(2)])]),
    Obj([slides |-> Bool(TRUE)]), Obj([deck_type |-> Str("ad_agency"), slides |-> Num(0)]) }

PlanInputs ==
  { Obj(Merge(sh, [slides |-> Arr(sl)])) : sh \in PlanShells, sl \in SlideLists } \cup OddPlans

OptionInputs ==
  { Obj(<<>>), Obj([nSlides |-> Num(3)]), Obj([nSlides |-> Num(8)]),
    Obj([nSlides |-> Str("40"), deckStyle |-> Str("agency_typographic")]),
    Obj([nSlides |-> Str("many"), deckType |-> Str("ad_agency")]) }

-----------------------------------------------------------------------------
(* Normalization runs: normalizePlan applied to an input, then to its own  *)
(* result with the same options.                                           *)

InitNormalize ==
  /\ pc = "input"
  /\ plan \in PlanInputs
  /\ options \in OptionInputs
  /\ out = Undef
  /\ out2 = Undef
  /\ brief = ""
  /\ extract = Undef
  /\ narrative = Undef
  /\ messaging = Undef
  /\ calls = <<>>
  /\ arg = Undef
  /\ conceptAnswer = Undef
  /\ response = Undef
  /\ ServerIdle

Normalize ==
  /\ pc = "input"
  /\ out' = normalizePlan(plan, options)
  /\ pc' = "normalized"
  /\ UNCHANGED <<plan, options, out2>>
  /\ UNCHANGED requestVars
  /\ UNCHANGED serverVars

Renormalize ==
  /\ pc = "normalized"
  /\ out # Throw
  /\ out2' = normalizePlan(out, options)
  /\ pc' = "renormalized"
  /\ UNCHANGED <<plan, options, out>>
  /\ UNCHANGED requestVars
  /\ UNCHANGED serverVars

NextNormalize == Normalize \/ Renormalize

SpecNormalize == InitNormalize /\ [][NextNormalize]_vars

-----------------------------------------------------------------------------
(* Strict structure for ad-agency creative decks (10 slides, fixed order). *)

AGENCY_CREATIVE_10 ==
  << [id |-> "s1_title", name |-> "Title", kind |-> "title",
      slide_kinds |-> <<"title", "cover">>],
     [id |-> "s2_current_audience", name |-> "Current Audience", kind |-> "current_audience",
      slide_kinds |-> <<"current_audience", "audience">>],
     [id |-> "s3_about_brand", name |-> "About the Brand", kind |-> "about_brand",
      slide_kinds |-> <<"about_brand", "brand">>],
     [id |-> "s4_challenge", name |-> "The Challenge / The Problem", kind |-> "challenge",
      slide_kinds |-> <<"challenge", "problem">>],
     [id |-> "s5_opportunity", name |-> "The Opportunity", kind |-> "opportunity",
      slide_kinds |-> <<"opportunity", "insight_or_reframe">>],
     [id |-> "s6_pillars", name |-> "Communication Pillars / Media Types",
      kind |-> "communication_pillars",
      slide_kinds |-> <<"communication_pillars", "strategy_pillars">>],
     [id |-> "s7_concept", name |-> "Creative Concept", kind |-> "creative_concept",
      slide_kinds |-> <<"creative_concept", "big_idea">>],
     [id |-> "s8_visual_identity", name |-> "Visual Identity", kind |-> "visual_identity",
      slide_kinds |-> <<"visual_identity", "visual_direction">>],
     [id |-> "s9_execution", name |-> "Execution Example", kind |-> "execution_example",
      slide_kinds |-> <<"execution_example", "execution_examples">>],
     [id |-> "s10_thanks", name |-> "Thank You", kind |-> "thank_you",
      slide_kinds |-> <<"thank_you", "close">>] >>

shouldLockAgency10(extractJson, opts) ==
  LET requested == Trim(asStr(OrElse(OrElse(Get(opts, "deckType"), Get(opts, "deck_type")),
                                     Str("")), 80))
      suggested == Trim(asStr(OrElse(OrElse(Get(extractJson, "deck_type_suggestion"),
                                            Get(extractJson, "deck_type")),
                                     Str("")), 80))
  IN ToLower(requested) = "ad_agency" \/ ToLower(suggested) = "ad_agency"

\* the narrative as the stage returned it
KeepNarrative(narrativeJson, extractJson) == narrativeJson

lockNarrativeToAgency10(narrativeJson, extractJson) ==
  LET thesis ==
        asStr(OrElse(OrElse(OrElse(Get(narrativeJson, "thesis"), Get(extractJson, "objective")),
                            Get(extractJson, "title")),
                     Str("A campaign story that earns attention.")), 220)
  IN Obj(Merge(SpreadOf(narrativeJson),
       [ deck_type |-> Str("ad_agency"),
         recipe_name |-> Str("agency_creative_10"),
         thesis |-> Str(thesis),
         sections |-> Arr([idx \in 1..Len(AGENCY_CREATIVE_10) |->
           LET s == AGENCY_CREATIVE_10[idx]
           IN Obj([ id |-> Str(s.id),
                    name |-> Str(s.name),
                    goal |-> Str("Deliver " \o ToLower(s.name) \o " with one clear idea."),
                    key_message |-> Str(""),
                    must_include |-> Arr(<<>>),
                    slide_kinds |-> Arr(MapSeq(Str, s.slide_kinds)),
                    transition_to_next |->
                      Str(IF idx = Len(AGENCY_CREATIVE_10) THEN ""
                          ELSE "Next: we build the case.") ])]) ]))

isAgencyTypographic(opts) ==
  ToLower(Trim(asStr(OrElse(OrElse(Get(opts, "deckStyle"), Get(opts, "deck_style")),
                            Str("")), 80))) = "agency_typographic"

defaultLayoutByKind(typographic) ==
  IF typographic
  THEN [ title |-> "agency_center", cover |-> "agency_center",
         current_audience |-> "agency_infographic", audience |-> "agency_infographic",
         about_brand |-> "agency_half", brand |-> "agency_half",
         challenge |-> "agency_half", problem |-> "agency_half",
         opportunity |-> "agency_infographic", insight_or_reframe |-> "agency_infographic",
         communication_pillars |-> "agency_infographic",
         strategy_pillars |-> "agency_infographic",
         creative_concept |-> "agency_center", big_idea |-> "agency_center",
         visual_identity |-> "agency_half", visual_direction |-> "agency_half",
         execution_example |-> "full_bleed", execution_examples |-> "full_bleed",
         thank_you |-> "agency_center", close |-> "agency_center" ]
  ELSE [ title |-> "hero", cover |-> "hero",
         current_audience |-> "cards", audience |-> "cards",
         about_brand |-> "split", brand |-> "split",
         challenge |-> "full_bleed", problem |-> "full_bleed",
         opportunity |-> "two_column", insight_or_reframe |-> "two_column",
         communication_pillars |-> "process_steps", strategy_pillars |-> "process_steps",
         creative_concept |-> "hero", big_idea |-> "hero",
         visual_identity |-> "image_caption", visual_direction |-> "image_caption",
         execution_example |-> "full_bleed", execution_examples |-> "full_bleed",
         thank_you |-> "hero", close |-> "hero" ]

defaultImagePromptByKind ==
  [ title |-> "High-contrast abstract campaign key visual, premium editorial lighting, minimal, no text",
    current_audience |-> "Modern editorial audience collage, diverse silhouettes, premium lighting, minimal, no text",
    about_brand |-> "Premium brand essence key visual, clean minimal composition, no text",
    challenge |-> "Dramatic abstract tension visual, high contrast, minimal, no text",
    opportunity |-> "Optimistic breakthrough abstract visual, premium lighting, minimal, no text",
    communication_pillars |-> "Minimal bento-style abstract icons and shapes, premium, high contrast, no text",
    creative_concept |-> "Signature campaign platform key visual, iconic, bold, minimal, no text",
    visual_identity |-> "Design system moodboard: materials, textures, color swatches, minimal, no text",
    execution_example |-> "Cinematic outdoor advertising mockup scene, generic, premium lighting, no logos, no text",
    thank_you |-> "Soft gradient background, premium minimal, no text" ]

\* existing = Array.isArray(deckPlan?.slides) ? deckPlan.slides : []
ExistingSlides(deckPlan) ==
  IF IsArray(Get(deckPlan, "slides")) THEN Get(deckPlan, "slides").a ELSE <<>>

\* takeFirstMatch returning `existing[0]` for whatever slide matched
takeFirstSlide(existing, used, kinds) ==
  LET hits == { i \in 1..Len(existing) :
                  /\ i \notin used
                  /\ InSeq(KindLower(existing[i]), MapSeq(ToLower, kinds)) }
  IN IF hits = {} THEN [idx |-> 0, used |-> used]
     ELSE [idx |-> 1, used |-> used \cup {CHOOSE h \in hits : \A j \in hits : h <= j}]

\* a scan from the end of the draft: the last unused slide of a matching kind
takeLastMatch(existing, used, kinds) ==
  LET hits == { i \in 1..Len(existing) :
                  /\ i \notin used
                  /\ InSeq(KindLower(existing[i]), MapSeq(ToLower, kinds)) }
      i == CHOOSE h \in hits : \A j \in hits : j <= h
  IN IF hits = {} THEN [idx |-> 0, used |-> used]
     ELSE [idx |-> i, used |-> used \cup {i}]

\* One call of takeFirstMatch: the index (from 1) of the draft slide it returns,
\* 0 for null, and the used set it leaves behind.
takeFirstMatch(existing, used, kinds) ==
  LET hits == { i \in 1..Len(existing) :
                  /\ i \notin used
                  /\ InSeq(KindLower(existing[i]), MapSeq(ToLower, kinds)) }
      i == CHOOSE h \in hits : \A j \in hits : h <= j
  IN IF hits = {} THEN [idx |-> 0, used |-> used]
     ELSE [idx |-> i, used |-> used \cup {i}]

\* The calls of takeFirstMatch made by AGENCY_CREATIVE_10.map, in order:
\* the first n results and the used set after them.
RECURSIVE MatchState(_, _)
MatchState(existing, n) ==
  IF n = 0 THEN [idxs |-> <<>>, used |-> {}]
  ELSE LET prev == MatchState(existing, n - 1)
           r == takeFirstMatch(existing, prev.used, AGENCY_CREATIVE_10[n].slide_kinds)
       IN [idxs |-> Append(prev.idxs, r.idx), used |-> r.used]

\* position (from 1) -> index of the draft slide reused there, 0 if none
AgencyMatches(deckPlan) ==
  MatchState(ExistingSlides(deckPlan), Len(AGENCY_CREATIVE_10)).idxs

\* kind: match?.kind || baseKind
MatchedKind(s, match) == ToStringJS(OrElse(Get(match, "kind"), Str(s.kind)))

\* kind: baseKind
LockedKind(s, match) == s.kind

\* The callback of AGENCY_CREATIVE_10.map((s, idx) => ...), idx from 0;
\* match is the slide takeFirstMatch returned, or Null.
LockedSlide(s, idx, match, title, subtitle, typographic) ==
  LET baseKind == s.kind
      last == (idx = Len(AGENCY_CREATIVE_10) - 1)
      layout == OrElse(OrElse(Get(match, "layout"), Str(defaultLayoutByKind(typographic)[baseKind])),
                       Str("split"))
      subtitle0 == OrElse(Get(match, "subtitle"),
                          Str(IF baseKind = "title" THEN subtitle ELSE ""))
      bullets0 == IF IsArray(Get(match, "bullets")) THEN Get(match, "bullets").a ELSE <<>>
      concept == (baseKind = "creative_concept")
      bullets1 == IF concept THEN Slice(bullets0, 3) ELSE bullets0
      maxBullets == IF baseKind \in {"communication_pillars", "current_audience", "opportunity"}
                    THEN 3 ELSE 2
      bullets2 == IF typographic THEN Slice(bullets1, maxBullets) ELSE bullets1
  IN Obj([ kind |-> Str(LockedKind(s, match)),
           section |-> Str(s.name),
           layout |-> layout,
           title |-> OrElse(Get(match, "title"),
                            Str(IF baseKind = "title" THEN title ELSE s.name)),
           subtitle |-> IF concept THEN OrElse(subtitle0, Str("The big idea in one line."))
                        ELSE subtitle0,
           bullets |-> Arr(bullets2),
           stat |-> Coalesce(Get(match, "stat"), Null),
           quote |-> Coalesce(Get(match, "quote"), Null),
           image_prompt |-> IF Get(match, "image_prompt").t = "str"
                            THEN Get(match, "image_prompt")
                            ELSE Str(defaultImagePromptByKind[baseKind]),
           speaker_notes |-> OrElse(Get(match, "speaker_notes"), Str("")),
           setup_line |-> OrElse(Get(match, "setup_line"), Str("")),
           takeaway |-> OrElse(Get(match, "takeaway"), Str("")),
           bridge_line |-> OrElse(Get(match, "bridge_line"), Str(IF last THEN "" ELSE "Next:")) ])

lockDeckPlanToAgency10(deckPlan, extractJson, opts) ==
  LET title == asStr(OrElse(OrElse(Get(deckPlan, "deck_title"), Get(extractJson, "title")),
                            Str("Creative Campaign")), 120)
      subtitle == asStr(OrElse(OrElse(Get(deckPlan, "deck_subtitle"),
                                      Get(extractJson, "subtitle")), Str("")), 140)
      typographic == isAgencyTypographic(opts)
      existing == ExistingSlides(deckPlan)
      m == AgencyMatches(deckPlan)
      slides == [k \in 1..Len(AGENCY_CREATIVE_10) |->
                   LockedSlide(AGENCY_CREATIVE_10[k], k - 1,
                               IF m[k] = 0 THEN Null ELSE existing[m[k]],
                               title, subtitle, typographic)]
  IN Obj(Merge(SpreadOf(deckPlan),
               [ deck_type |-> Str("ad_agency"),
                 deck_title |-> Str(title),
                 deck_subtitle |-> Str(subtitle),
                 recommended_slide_count |-> Num(10),
                 slides |-> Arr(slides) ]))

-----------------------------------------------------------------------------
(* Agency concept quality pass.                                            *)

\* \w of a regular expression
LowerSet == {Ch(LowerChars, i) : i \in 1..26}
IsWordCh(c) == c \in LowerSet \/ c \in DOMAIN LowerOf \/ IsDigit(c) \/ c = "_"

\* /\bw\b/i.test(s), for a w that starts and ends with a word character
HasWord(s, w) ==
  LET ls == ToLower(s)
  IN \E i \in 1..(Len(ls) - Len(w) + 1) :
       /\ SubSeq(ls, i, i + Len(w) - 1) = w
       /\ (i = 1 \/ ~IsWordCh(Ch(ls, i - 1)))
       /\ (i + Len(w) > Len(ls) \/ ~IsWordCh(Ch(ls, i + Len(w))))

SpaceChars == {" ", "\n", "\t", "\r"}
DigitChars == DOMAIN DigitOf
WordChars == LowerSet \cup DOMAIN LowerOf \cup DigitChars \cup {"_"}

\* length of the longest prefix of s whose characters all belong to chars
RECURSIVE RunOf(_, _)
RunOf(chars, s) ==
  IF Len(s) > 0 /\ Ch(s, 1) \in chars THEN 1 + RunOf(chars, SubSeq(s, 2, Len(s))) ELSE 0

\* length of the longest prefix of s that holds no character of chars
RECURSIVE RunNotOf(_, _)
RunNotOf(chars, s) ==
  IF Len(s) > 0 /\ Ch(s, 1) \notin chars THEN 1 + RunNotOf(chars, SubSeq(s, 2, Len(s))) ELSE 0

\* /^\s*\w+\s+campaign\b/i.test(s)
StartsWordCampaign(s) ==
  LET ls == ToLower(s)
      a == RunOf(SpaceChars, ls)
      r1 == SubSeq(ls, a + 1, Len(ls))
      b == RunOf(WordChars, r1)
      r2 == SubSeq(r1, b + 1, Len(r1))
      c == RunOf(SpaceChars, r2)
      r3 == SubSeq(r2, c + 1, Len(r2))
  IN /\ b >= 1
     /\ c >= 1
     /\ Len(r3) >= 8
     /\ SubSeq(r3, 1, 8) = "campaign"
     /\ (Len(r3) = 8 \/ ~IsWordCh(Ch(r3, 9)))

\* s.split(sep) for a one-character sep
RECURSIVE SplitBy(_, _)
SplitBy(s, sep) ==
  IF \E i \in 1..Len(s) : Ch(s, i) = sep
  THEN LET i == CHOOSE k \in 1..Len(s) : Ch(s, k) = sep /\ \A j \in 1..(k - 1) : Ch(s, j) # sep
       IN <<SubSeq(s, 1, i - 1)>> \o SplitBy(SubSeq(s, i + 1, Len(s)), sep)
  ELSE <<s>>

\* s.replace(/[.]/g, ' ').trim().split(/\s+/).filter(Boolean).length
\* (the source's class also holds two non-ASCII bullet characters)
RECURSIVE WordCount(_)
WordCount(s) ==
  LET sep == SpaceChars \cup {"."}
      a == RunOf(sep, s)
      r1 == SubSeq(s, a + 1, Len(s))
      b == RunNotOf(sep, r1)
  IN IF b = 0 THEN 0 ELSE 1 + WordCount(SubSeq(r1, b + 1, Len(r1)))

whitelist ==
  << "radio", "frequency", "frequencies", "city", "cities", "tune", "tuned", "vibe", "vibes",
     "listen", "listening", "airwaves", "station", "stations", "audience", "fans", "music",
     "beats", "sound", "saudi", "riyadh", "jeddah", "dammam", "khobar", "ooh", "out of home",
     "campaign" >>

\* the set of single tokens of the whitelist entries the brief contains
briefKeywords(text) ==
  LET tl == ToLower(text)
  IN { SplitBy(whitelist[i], " ")[1] : i \in { j \in 1..Len(whitelist) : Includes(tl, whitelist[j]) } }

isWeakAgencyConceptLine(line, briefText) ==
  LET s == Trim(line)
      parts == FilterSeq(LAMBDA q : q # "", MapSeq(Trim, SplitBy(s, ",")))
      first == ToLower(Ch(parts[1], 1))
      words == WordCount(s)
      kw == briefKeywords(briefText)
      sNorm == ToLower(s)
  IN CASE s = "" -> TRUE
       [] Includes(s, ":") -> TRUE
       [] HasWord(s, "campaign") /\ (HasWord(s, "out of home") \/ HasWord(s, "ooh")) -> TRUE
       [] StartsWordCampaign(s) -> TRUE
       [] Len(parts) >= 3 /\ \A i \in 1..Len(parts) : ToLower(Ch(parts[i], 1)) = first -> TRUE
       [] words > 12 -> TRUE
       [] kw # {} /\ (~\E k \in kw : Includes(sNorm, k)) /\ words <= 6 -> TRUE
       [] OTHER -> FALSE

\* slides.findIndex(s => ['creative_concept','big_idea'].includes(kind)), from 1; 0 for -1
ConceptIndex(slides) ==
  LET hits == { i \in 1..Len(slides) : KindLower(slides[i]) \in {"creative_concept", "big_idea"} }
  IN IF hits = {} THEN 0 ELSE CHOOSE h \in hits : \A j \in hits : h <= j

\* the title when keep_existing is taken at its word and the line is not
\* classified again
TrustedTitle(currentLine, resp, briefText) ==
  LET conceptLine == Trim(ToStringJS(OrElse(Get(resp, "concept_line"), Str(""))))
      finalLine == IF Truthy(Get(resp, "keep_existing")) THEN currentLine ELSE conceptLine
  IN IF finalLine # "" THEN finalLine
     ELSE IF currentLine # "" THEN currentLine ELSE "Big idea"

\* The title the gate writes: `patchedLine || currentLine || 'Big idea'`
PatchedTitle(currentLine, resp, briefText) ==
  LET needsHelp == isWeakAgencyConceptLine(currentLine, briefText)
      conceptLine == Trim(ToStringJS(OrElse(Get(resp, "concept_line"), Str(""))))
      keep == Truthy(Get(resp, "keep_existing"))
      finalLine == IF keep /\ ~needsHelp THEN currentLine ELSE conceptLine
      patchedLine == IF isWeakAgencyConceptLine(finalLine, briefText)
                     THEN (IF conceptLine # "" THEN conceptLine ELSE currentLine)
                     ELSE finalLine
  IN IF patchedLine # "" THEN patchedLine
     ELSE IF currentLine # "" THEN currentLine ELSE "Big idea"

\* a gate that also resets the layout of the concept slide
refineAgencyConceptRestyled(briefText, deckPlan, resp) ==
  LET slides == ExistingSlides(deckPlan)
      idx == ConceptIndex(slides)
      currentLine == ToStringJS(OrElse(Get(OrElse(slides[idx], Obj(<<>>)), "title"), Str("")))
      nextSlides ==
        [i \in 1..Len(slides) |->
           IF i # idx THEN slides[i]
           ELSE Obj(Merge(SpreadOf(OrElse(slides[i], Obj(<<>>))),
                  [ title |-> Str(PatchedTitle(currentLine, resp, briefText)),
                    layout |-> Str("statement") ]))]
  IN IF idx = 0 \/ resp = Undef THEN deckPlan
     ELSE Obj(Merge(SpreadOf(OrElse(deckPlan, Obj(<<>>))), [slides |-> Arr(nextSlides)]))

\* refineAgencyConceptWithOpenAI / ...WithGemini once the generation call has
\* answered resp: the parsed JSON object, or Undef for an empty completion
\* (which only the OpenAI path lets through).
refineAgencyConcept(briefText, deckPlan, resp) ==
  LET slides == ExistingSlides(deckPlan)
      idx == ConceptIndex(slides)
      current == OrElse(slides[idx], Obj(<<>>))
      currentLine == ToStringJS(OrElse(Get(current, "title"), Str("")))
      nextSlides ==
        [i \in 1..Len(slides) |->
           IF i # idx THEN slides[i]
           ELSE Obj(Merge(SpreadOf(OrElse(slides[i], Obj(<<>>))),
                  [ title |-> Str(PatchedTitle(currentLine, resp, briefText)),
                    subtitle |-> Str(ToStringJS(OrElse(OrElse(Get(resp, "supporting_line"),
                                                              Get(slides[i], "subtitle")),
                                                       Str("")))),
                    bullets |-> IF IsArray(Get(resp, "proof_points"))
                                THEN Arr(FilterSeq(Truthy, Get(resp, "proof_points").a))
                                ELSE IF IsArray(Get(slides[i], "bullets"))
                                     THEN Get(slides[i], "bullets")
                                     ELSE Arr(<<>>) ]))]
  IN IF idx = 0 THEN deckPlan
     ELSE IF resp = Undef THEN deckPlan
     ELSE Obj(Merge(SpreadOf(OrElse(deckPlan, Obj(<<>>))), [slides |-> Arr(nextSlides)]))

-----------------------------------------------------------------------------
(* What the generation service may answer, stage by stage.  The values     *)
(* have the shape of the stage's schema; their content is the model's to   *)
(* choose, so kinds, counts and titles are arbitrary.                      *)

BriefRadio == "Relaunch the radio app for Gen Z in Riyadh. Tune the city to one frequency."
BriefBoard == "Quarterly numbers for the board."
\* the same brief with a numbered list, a slide marker and a range hint
BriefPlain == BriefBoard \o "\n3) Agenda\nSlide 3: Market Overview\nAbout 18-22 slides"

StrongLine == "Tune the City to One Frequency"
WeakLine == "Campaign: Louder Together"
\* a platform line the regeneration call may answer with
AnswerLine == "One City. One Frequency."

ExtractResults ==
  { Obj([ deck_type_suggestion |-> Str(d), title |-> Str("Relaunch"), subtitle |-> Str("2026"),
          objective |-> Str("Win Gen Z listeners") ]) : d \in {"ad_agency", "sales_deck"} }

NarrativeSection(id) ==
  Obj([ id |-> Str(id), name |-> Str(id), goal |-> Str("goal"), key_message |-> Str("message"),
        must_include |-> Arr(<<Str("fact")>>), slide_kinds |-> Arr(<<Str(id)>>),
        transition_to_next |-> Str("next") ])

NarrativeOf(recipe, ids) ==
  Obj([ deck_type |-> Str("sales_deck"), recipe_name |-> Str(recipe), thesis |-> Str("Thesis"),
        story_spine |-> Obj([setup |-> Str("Setup of " \o recipe), tension |-> Str("t"),
                             insight |-> Str("i"), solution |-> Str("o"), proof |-> Str("p"),
                             action |-> Str("a")]),
        lexicon |-> Obj([prefer_terms |-> Arr(<<Str("tune"), Str(recipe)>>),
                         avoid_terms |-> Arr(<<>>)]),
        sections |-> Arr(MapSeq(NarrativeSection, ids)) ])

NarrativeResults ==
  { NarrativeOf("sales_deck", <<"cover", "customer_pain", "solution", "close">>),
    NarrativeOf("agency_creative_10", <<"title", "challenge", "creative_concept", "thank_you",
                                         "appendix">>) }

MessagingResults ==
  { Obj([ voice_profile |-> Str("witty_agency"), anchors |-> Arr(<<Str("One frequency")>>),
          locked_phrases |-> Arr(<<Str("Tune in")>>), section_concepts |-> Arr(<<>>),
          buzzwords_to_avoid |-> Arr(<<>>) ]) }

\* a slide as the deck schema shapes it
GenSlide(kind, layout, title) ==
  Obj(Merge(defaultSlide(1),
            [ kind |-> Str(kind), layout |-> Str(layout), title |-> Str(title),
              subtitle |-> Str("Sub"), section |-> Str("Section"),
              bullets |-> Arr(<<Str("b1"), Str("b2"), Str("b3"), Str("b4")>>) ]))

GenPlan(deckType, slides) ==
  Obj([ deck_type |-> Str(deckType), deck_title |-> Str("Radio Relaunch"),
        deck_subtitle |-> Str("Pitch"), recommended_slide_count |-> Num(Len(slides)),
        theme |-> Obj(defaultTheme), slides |-> Arr(slides) ])

AgencyKinds == [i \in 1..Len(AGENCY_CREATIVE_10) |-> AGENCY_CREATIVE_10[i].kind]
AgencyAliasKinds == [i \in 1..Len(AGENCY_CREATIVE_10) |-> AGENCY_CREATIVE_10[i].slide_kinds[2]]

KindSlides(kinds, conceptTitle) ==
  [i \in 1..Len(kinds) |->
     GenSlide(kinds[i], "split",
              IF kinds[i] \in {"creative_concept", "big_idea"} THEN conceptTitle
              ELSE "Slide on " \o kinds[i])]

\* m plain slides that hold neither a quote nor a pillar slide
PlainSlides(m) ==
  [i \in 1..m |-> GenSlide(IF i = 1 THEN "cover" ELSE "content", "split",
                           "Point " \o IntToStr(i))]

\* slide counts the assembly stage answers with for a plain deck
DraftCounts == {5, 9, 12}

DraftPlans ==
  { GenPlan("ad_agency", KindSlides(AgencyKinds, StrongLine)),
    GenPlan("ad_agency", KindSlides(AgencyAliasKinds, WeakLine)),
    GenPlan("marketing_strategy",
            KindSlides(<<"cover", "Big_Idea", "quote", "strategy_pillars", "big_idea", "close",
                         "close">>, StrongLine)) }
    \cup { GenPlan("sales_deck", PlainSlides(m)) : m \in DraftCounts }

\* The editorial stage answers with the plan as it stands (its rewording is
\* not tracked) or, ignoring its instructions, with the last slide dropped.
EditResults(p) ==
  {p} \cup IF IsArray(Get(p, "slides")) /\ Len(Get(p, "slides").a) > 0
           THEN { Obj(Merge(p.o, [slides |-> Arr(SubSeq(p.o.slides.a, 1, Len(p.o.slides.a) - 1))])) }
           ELSE {}

\* answers of the concept regeneration call; Undef is an empty completion
ConceptResponses ==
  { Obj([ keep_existing |-> Bool(k), concept_line |-> Str(c), supporting_line |-> Str("Why it works"),
          proof_points |-> Arr(<<Str("p1"), Str("p2"), Str("p3")>>), rationale |-> Str("r") ])
      : k \in BOOLEAN, c \in {AnswerLine, WeakLine, ""} }
    \cup {Undef}

RequestOptions ==
  { Obj(Merge(Merge(Merge(Merge(dt, ns), tp), ep), pv)) :
      dt \in {<<>>, [deckType |-> Str("ad_agency")]},
      ns \in {<<>>, [nSlides |-> Num(8)], [nSlides |-> Num(12)]},
      tp \in {<<>>, [twoPass |-> Bool(FALSE)]},
      ep \in {<<>>, [editorPass |-> Bool(FALSE)]},
      pv \in {<<>>, [provider |-> Str("Gemini")], [provider |-> Str("azure")]} }

-----------------------------------------------------------------------------
(* Structural-lock runs: lockDeckPlanToAgency10 applied to a draft plan.   *)

\* longest draft whose kinds are drawn freely
MaxDraft == 3

DraftKindSamples == {"title", "Cover", "cover", "problem", "big_idea", "notes"}

DraftSlide(kind, i) ==
  Obj([ kind |-> Str(kind), layout |-> Str("cards"), title |-> Str("Draft " \o IntToStr(i)),
        subtitle |-> Str("Sub " \o IntToStr(i)),
        bullets |-> Arr(<<Str("a"), Str("b"), Str("c"), Str("d")>>) ])

FreeDrafts ==
  { Obj([ deck_title |-> Str("Deck"), slides |-> Arr([i \in 1..Len(ks) |-> DraftSlide(ks[i], i)]) ])
      : ks \in UNION { [1..n -> DraftKindSamples] : n \in 0..MaxDraft } }

\* plans without a slide list, and slides that are not objects or lack a kind
OddDrafts ==
  { Null, Undef, Obj(<<>>), Obj([slides |-> Str("none")]),
    Obj([slides |-> Arr(<<Null, Str("cover"), Obj([kind |-> Num(7)]),
                          Obj([title |-> Str("No kind")]), Obj([kind |-> Str("close")])>>)]) }

LockDrafts ==
  FreeDrafts \cup OddDrafts
    \cup { GenPlan("ad_agency", KindSlides(AgencyAliasKinds, WeakLine)),
           GenPlan("ad_agency", KindSlides(AgencyKinds \o AgencyAliasKinds, StrongLine)) }

InitLock ==
  /\ pc = "draft"
  /\ plan \in LockDrafts
  /\ options \in {Obj(<<>>), Obj([deckStyle |-> Str("agency_typographic")])}
  /\ extract \in {Null, ExtractSample}
  /\ out = Undef
  /\ out2 = Undef
  /\ brief = ""
  /\ narrative = Undef
  /\ messaging = Undef
  /\ calls = <<>>
  /\ arg = Undef
  /\ conceptAnswer = Undef
  /\ response = Undef
  /\ ServerIdle

Lock ==
  /\ pc = "draft"
  /\ out' = lockDeckPlanToAgency10(plan, extract, options)
  /\ pc' = "locked"
  /\ UNCHANGED <<arg, brief, options, extract, narrative, messaging, plan, calls, conceptAnswer, out2, response>>
  /\ UNCHANGED serverVars

NextLock == Lock

SpecLock == InitLock /\ [][NextLock]_vars

-----------------------------------------------------------------------------
(* Explicit outline signals of a brief (extractExplicitOutlineSignals).     *)

\* text.split(/\r?\n/): a carriage return right before a line feed belongs
\* to the separator
SplitLines(text) ==
  LET pieces == SplitBy(text, "\n")
  IN [i \in 1..Len(pieces) |->
        IF i < Len(pieces) /\ Len(pieces[i]) > 0 /\ Ch(pieces[i], Len(pieces[i])) = "\r"
        THEN SubSeq(pieces[i], 1, Len(pieces[i]) - 1)
        ELSE pieces[i]]

\* the ASCII members of [:\-...] of re1 (the source's class also holds an en
\* dash and a bullet) and the members of [\).:-] of re2
SlideSeparators == {":", "-"}
ListSeparators == {")", ".", ":", "-"}

MaxTitleLength == 140

NoMatch == [hit |-> FALSE, n |-> 0, title |-> ""]

\* (\d{1,3})\s*[seps]\s*(.+?)\s*$ applied to r, with n = parseInt(digits, 10)
\* and title = group.trim().  The digit run is 1 to 3 digits long, at least
\* one character follows the separator, and '.' matches no line end inside
\* the title (a blank rest gives the empty title, which pushes nothing).
NumberedTail(r, seps) ==
  LET d == RunOf(DigitChars, r)
      r1 == SubSeq(r, d + 1, Len(r))
      r2 == SubSeq(r1, RunOf(SpaceChars, r1) + 1, Len(r1))
      rest == SubSeq(r2, 2, Len(r2))
  IN IF /\ d \in 1..3
        /\ Len(r2) >= 2
        /\ Ch(r2, 1) \in seps
        /\ \A i \in 1..Len(Trim(rest)) : Ch(Trim(rest), i) \notin {"\n", "\r"}
     THEN [hit |-> TRUE, n |-> DigitsToNat(SubSeq(r, 1, d)), title |-> Trim(rest)]
     ELSE NoMatch

\* ln.match(/^\s*(slide|page)\s*(\d{1,3})\s*[:\-...]\s*(.+?)\s*$/i)
MatchSlideMarker(ln) ==
  LET r == SubSeq(ln, RunOf(SpaceChars, ln) + 1, Len(ln))
      w == IF ToLower(SubSeq(r, 1, IF Len(r) < 5 THEN Len(r) ELSE 5)) = "slide" THEN 5
           ELSE IF ToLower(SubSeq(r, 1, IF Len(r) < 4 THEN Len(r) ELSE 4)) = "page" THEN 4
           ELSE 0
      r1 == SubSeq(r, w + 1, Len(r))
  IN IF w = 0 THEN NoMatch
     ELSE NumberedTail(SubSeq(r1, RunOf(SpaceChars, r1) + 1, Len(r1)), SlideSeparators)

\* ln.match(/^\s*(\d{1,3})\s*[\).:-]\s*(.+?)\s*$/)
MatchListMarker(ln) ==
  NumberedTail(SubSeq(ln, RunOf(SpaceChars, ln) + 1, Len(ln)), ListSeparators)

\* the items one line pushes: a slide marker wins and ends the line's turn
\* (continue) even when its title is empty; a list marker needs a title of
\* at most 140 characters
LineItems(ln) ==
  LET m1 == MatchSlideMarker(ln)
      m2 == MatchListMarker(ln)
  IN IF m1.hit
     THEN IF m1.title # "" THEN <<[n |-> m1.n, title |-> m1.title]>> ELSE <<>>
     ELSE IF m2.hit /\ m2.title # "" /\ Len(m2.title) <= MaxTitleLength
          THEN <<[n |-> m2.n, title |-> m2.title]>>
          ELSE <<>>

RECURSIVE OutlineItems(_)
OutlineItems(lines) ==
  IF Len(lines) = 0 THEN <<>> ELSE LineItems(lines[1]) \o OutlineItems(Tail(lines))

\* the title kept for slide number n when the last item of that number wins
LastTitle(items, n) ==
  LET hits == { i \in 1..Len(items) : items[i].n = n }
  IN items[CHOOSE i \in hits : \A j \in hits : j <= i].title

\* `if (!byN.has(it.n)) byN.set(it.n, it.title)`: the first item of a
\* slide number wins
FirstTitle(items, n) ==
  LET hits == { i \in 1..Len(items) : items[i].n = n }
  IN items[CHOOSE i \in hits : \A j \in hits : i <= j].title

\* Array.from(byN.entries()).sort((a,b)=>a[0]-b[0]).map(...) over the slide
\* numbers in ns
RECURSIVE SortedOutline(_, _)
SortedOutline(items, ns) ==
  IF ns = {} THEN <<>>
  ELSE LET n == CHOOSE x \in ns : \A y \in ns : x <= y
       IN <<Obj([slide |-> Num(n), title |-> Str(FirstTitle(items, n))])>>
            \o SortedOutline(items, ns \ {n})

DedupedOutline(items) == SortedOutline(items, { items[i].n : i \in 1..Len(items) })

\* /(\d{1,2})\s*[-]\s*(\d{1,2})\s*slides?/i tried at position i of text:
\* both digit runs, read from where they start, are 1 or 2 digits long
RangeAt(text, i) ==
  LET r == SubSeq(text, i, Len(text))
      d1 == RunOf(DigitChars, r)
      r1 == SubSeq(r, d1 + 1, Len(r))
      r2 == SubSeq(r1, RunOf(SpaceChars, r1) + 1, Len(r1))
      r3 == SubSeq(r2, 2, Len(r2))
      r4 == SubSeq(r3, RunOf(SpaceChars, r3) + 1, Len(r3))
      d2 == RunOf(DigitChars, r4)
      r5 == SubSeq(r4, d2 + 1, Len(r4))
      r6 == SubSeq(r5, RunOf(SpaceChars, r5) + 1, Len(r5))
  IN IF /\ d1 \in 1..2
        /\ Len(r2) >= 1
        /\ Ch(r2, 1) = "-"
        /\ d2 \in 1..2
        /\ Len(r6) >= 5
        /\ ToLower(SubSeq(r6, 1, 5)) = "slide"
     THEN Obj([min |-> Num(DigitsToNat(SubSeq(r, 1, d1))),
               max |-> Num(DigitsToNat(SubSeq(r4, 1, d2)))])
     ELSE Null

\* text.match(...): the leftmost position that matches, null when none does
RangeHint(text) ==
  LET hits == { i \in 1..Len(text) : RangeAt(text, i) # Null }
  IN IF hits = {} THEN Null
     ELSE RangeAt(text, CHOOSE i \in hits : \A j \in hits : i <= j)

\* the outline: one entry per slide number, the first title, ascending
Outline(briefText) == DedupedOutline(OutlineItems(SplitLines(briefText)))

extractExplicitOutlineSignals(briefText) ==
  Obj([outline |-> Arr(Outline(briefText)), range |-> RangeHint(briefText)])

\* planDeck attaches the signals to the extract: the outline when it has
\* entries, the range when there is one
AttachSignals(ex, outline, range) ==
  Obj(Merge(Merge(ex.o, IF Len(outline.a) > 0 THEN [explicit_outline |-> outline] ELSE <<>>),
            IF range # Null THEN [slide_count_range_hint |-> range] ELSE <<>>))

AttachOutline(ex, briefText) ==
  AttachSignals(ex, Arr(Outline(briefText)), RangeHint(briefText))

-----------------------------------------------------------------------------
(* What a generation call hands back, and how each backend's wrapper reads *)
(* it.  The completion text is kept as the prose around a JSON value:      *)
(* prose "" with a value is pure JSON, prose with a value is JSON embedded *)
(* in text, no value is text that holds no JSON (empty when prose is "").  *)

Content(prose, json) == [prose |-> prose, json |-> json]

\* how the log names a completion
AnswerShape(c) ==
  IF c.json = Undef THEN (IF c.prose = "" THEN "empty" ELSE "text")
  ELSE IF c.prose = "" THEN "json" ELSE "prose"

\* the ...WithOpenAI stages: `if (!content) throw ...; return JSON.parse(content)`
ParseOpenAI(c) == IF c.json # Undef /\ c.prose = "" THEN c.json ELSE Throw

\* geminiGenerateJson: throws on empty text; JSON.parse, and when that fails
\* the first {...} of the text is parsed instead
ParseGemini(c) ==
  IF c.json = Undef THEN Throw
  ELSE IF c.prose = "" THEN c.json
  ELSE IF c.json.t = "obj" THEN c.json
  ELSE Throw

\* the completions of a stage whose schema-shaped answers are results
Contents(results) ==
  { Content("", r) : r \in results } \cup { Content("I cannot produce that.", Undef) }

\* the assembly stage also answers with a plan wrapped in prose and with an
\* object that has no slides
DraftContents ==
  Contents(DraftPlans)
    \cup { Content("Here is the deck plan: ", GenPlan("sales_deck", PlainSlides(5))),
           Content("", Obj([deck_title |-> Str("Outline only")])) }

ConceptContents ==
  { Content("", r) : r \in ConceptResponses \ {Undef} } \cup { Content("", Undef) }

-----------------------------------------------------------------------------
(* POST /api/plan: planDeck stage by stage, then normalizePlan.  Each      *)
(* action issues one generation call, takes its answer and runs the code   *)
(* up to the next call or to the return.                                   *)

\* every request served by the OpenAI client
OpenAIBackend(opts) == "openai"

\* `(options.provider || 'openai').toString().toLowerCase()`, compared with 'gemini'
Backend(opts) ==
  IF ToLower(ToStringJS(OrElse(Get(opts, "provider"), Str("openai")))) = "gemini"
  THEN "gemini" ELSE "openai"

\* what the stage's wrapper of the request's backend returns for a completion
StageResult(c, opts) == IF Backend(opts) = "gemini" THEN ParseGemini(c) ELSE ParseOpenAI(c)

\* an entry of the call log
Call(stage, opts, c) == [stage |-> stage, backend |-> Backend(opts), answer |-> AnswerShape(c)]

\* `options.twoPass !== false`
TwoPass(opts) == Get(opts, "twoPass") # Bool(FALSE)

\* `options.editorPass !== false`
UseEditorPass(opts) == Get(opts, "editorPass") # Bool(FALSE)

\* the three audit fields planDeck attaches before it returns
AttachAudit(p, ex, nar, msg) ==
  Obj(Merge(p.o, [_extract |-> ex, _narrative |-> nar, _messaging |-> msg]))

\* planDeck without the final enforcement: the plan is returned as edited
AfterEditUnlocked(p, ex, nar, msg, opts) ==
  [pc |-> "planned", plan |-> AttachAudit(p, ex, nar, msg)]

\* planDeck from the end of the editorial stage to the concept gate's call,
\* or to the return when the request is not locked
AfterEdit(p, ex, nar, msg, opts) ==
  IF shouldLockAgency10(ex, opts)
  THEN [pc |-> "refine", plan |-> lockDeckPlanToAgency10(p, ex, opts)]
  ELSE [pc |-> "planned", plan |-> AttachAudit(p, ex, nar, msg)]

\* a rejected stage is tried again
RetryAfterFailure(at) == at

\* where the request stands once a stage has thrown: planDeck rejects and the
\* route's catch answers
AfterFailure(at) == "done"

\* the route's catch: status 500 with the error of the stage that threw
Rejected(stage) ==
  /\ response' = [status |-> 500, error |-> stage]
  /\ pc' = AfterFailure(pc)

InitPlan ==
  /\ pc = "received"
  /\ brief \in {"", BriefRadio, BriefPlain}
  /\ options \in RequestOptions
  /\ extract = Undef
  /\ narrative = Undef
  /\ messaging = Undef
  /\ plan = Undef
  /\ calls = <<>>
  /\ arg = Undef
  /\ conceptAnswer = Undef
  /\ out = Undef
  /\ out2 = Undef
  /\ response = Undef
  /\ ServerIdle

\* an empty brief is answered with 400 before planDeck is called
RejectRequest ==
  /\ pc = "received"
  /\ Trim(brief) = ""
  /\ response' = [status |-> 400, error |-> "Provide a PDF and/or text."]
  /\ pc' = "done"
  /\ UNCHANGED <<arg, brief, options, extract, narrative, messaging, plan, calls, conceptAnswer, out, out2>>
  /\ UNCHANGED serverVars

\* planDeckOnePass: one call, its answer is planDeck's result
OnePass ==
  /\ pc = "received"
  /\ Trim(brief) # ""
  /\ ~TwoPass(options)
  /\ \E c \in DraftContents :
       /\ calls' = Append(calls, Call("onepass", options, c))
       /\ IF StageResult(c, options) = Throw
          THEN Rejected("onepass") /\ UNCHANGED plan
          ELSE plan' = StageResult(c, options) /\ pc' = "planned" /\ UNCHANGED response
  /\ UNCHANGED <<arg, brief, options, extract, narrative, messaging, conceptAnswer, out, out2>>
  /\ UNCHANGED serverVars

ExtractBrief ==
  /\ pc = "received"
  /\ Trim(brief) # ""
  /\ TwoPass(options)
  /\ \E c \in Contents(ExtractResults) :
       /\ calls' = Append(calls, Call("extract", options, c))
       /\ IF StageResult(c, options) = Throw
          THEN Rejected("extract") /\ UNCHANGED extract
          ELSE /\ extract' = AttachOutline(StageResult(c, options), brief)
               /\ pc' = "narrative"
               /\ UNCHANGED response
  /\ UNCHANGED <<arg, brief, options, narrative, messaging, plan, conceptAnswer, out, out2>>
  /\ UNCHANGED serverVars

PlanNarrative ==
  /\ pc = "narrative"
  /\ \E c \in Contents(NarrativeResults) :
       /\ calls' = Append(calls, Call("narrative", options, c))
       /\ IF StageResult(c, options) = Throw
          THEN Rejected("narrative") /\ UNCHANGED narrative
          ELSE /\ narrative' = IF shouldLockAgency10(extract, options)
                               THEN lockNarrativeToAgency10(StageResult(c, options), extract)
                               ELSE StageResult(c, options)
               /\ pc' = "messaging"
               /\ UNCHANGED response
  /\ UNCHANGED <<arg, brief, options, extract, messaging, plan, conceptAnswer, out, out2>>
  /\ UNCHANGED serverVars

PlanMessaging ==
  /\ pc = "messaging"
  /\ \E c \in Contents(MessagingResults) :
       /\ calls' = Append(calls, Call("messaging", options, c))
       /\ IF StageResult(c, options) = Throw
          THEN Rejected("messaging") /\ UNCHANGED messaging
          ELSE messaging' = StageResult(c, options) /\ pc' = "assemble" /\ UNCHANGED response
  /\ UNCHANGED <<arg, brief, options, extract, narrative, plan, conceptAnswer, out, out2>>
  /\ UNCHANGED serverVars

AssembleDeck ==
  /\ pc = "assemble"
  /\ \E c \in DraftContents :
       LET draftPlan == StageResult(c, options)
           next == AfterEdit(draftPlan, extract, narrative, messaging, options)
       IN /\ calls' = Append(calls, Call("assemble", options, c))
          /\ IF draftPlan = Throw
             THEN Rejected("assemble") /\ UNCHANGED plan
             ELSE /\ IF UseEditorPass(options)
                     THEN plan' = draftPlan /\ pc' = "edit"
                     ELSE plan' = next.plan /\ pc' = next.pc
                  /\ UNCHANGED response
  /\ UNCHANGED <<arg, brief, options, extract, narrative, messaging, conceptAnswer, out, out2>>
  /\ UNCHANGED serverVars

EditDeck ==
  /\ pc = "edit"
  /\ \E c \in Contents(EditResults(plan)) :
       LET edited == StageResult(c, options)
           next == AfterEdit(edited, extract, narrative, messaging, options)
       IN /\ calls' = Append(calls, Call("edit", options, c))
          /\ IF edited = Throw
             THEN Rejected("edit") /\ UNCHANGED plan
             ELSE plan' = next.plan /\ pc' = next.pc /\ UNCHANGED response
  /\ UNCHANGED <<arg, brief, options, extract, narrative, messaging, conceptAnswer, out, out2>>
  /\ UNCHANGED serverVars

\* what the gate takes from a completion: the OpenAI path returns the plan as
\* it stands for an empty completion (Undef), the Gemini wrapper throws on it
ConceptResult(c, opts) ==
  IF Backend(opts) = "gemini" THEN ParseGemini(c)
  ELSE IF AnswerShape(c) = "empty" THEN Undef ELSE ParseOpenAI(c)

\* the concept gate on the locked plan, then the audit fields and the return
RefineConcept ==
  /\ pc = "refine"
  /\ IF ConceptIndex(ExistingSlides(plan)) = 0
     THEN /\ plan' = AttachAudit(plan, extract, narrative, messaging)
          /\ pc' = "planned"
          /\ UNCHANGED <<calls, conceptAnswer, response>>
     ELSE \E c \in ConceptContents :
            /\ calls' = Append(calls, Call("concept", options, c))
            /\ IF ConceptResult(c, options) = Throw
               THEN Rejected("concept") /\ UNCHANGED <<plan, conceptAnswer>>
               ELSE /\ conceptAnswer' = ConceptResult(c, options)
                    /\ plan' = AttachAudit(refineAgencyConcept(brief, plan, conceptAnswer'),
                                           extract, narrative, messaging)
                    /\ pc' = "planned"
                    /\ UNCHANGED response
  /\ UNCHANGED <<arg, brief, options, extract, narrative, messaging, out, out2>>
  /\ UNCHANGED serverVars

\* the stage whose call is outstanding at pc, "" when none is
StageAt(at, opts) ==
  CASE at = "received" -> IF TwoPass(opts) THEN "extract" ELSE "onepass"
    [] at = "narrative" -> "narrative"
    [] at = "messaging" -> "messaging"
    [] at = "assemble" -> "assemble"
    [] at = "edit" -> "edit"
    [] at = "refine" -> "concept"
    [] OTHER -> ""

\* the generation call itself rejects (network, auth, quota): planDeck rejects,
\* the route answers 500
GenerationFails ==
  /\ StageAt(pc, options) # ""
  /\ pc = "received" => Trim(brief) # ""
  /\ calls' = Append(calls, [stage |-> StageAt(pc, options), backend |-> Backend(options),
                             answer |-> "rejected"])
  /\ Rejected(StageAt(pc, options))
  /\ UNCHANGED <<arg, brief, options, extract, narrative, messaging, plan, conceptAnswer, out, out2>>
  /\ UNCHANGED serverVars

\* `const plan = normalizePlan(rawPlan, options); res.json({ extractedText, plan })`
Respond ==
  /\ pc = "planned"
  /\ out' = normalizePlan(plan, options)
  /\ response' = IF out' = Throw
                 THEN [status |-> 500, error |-> "normalize"]
                 ELSE [status |-> 200, plan |-> out']
  /\ pc' = "done"
  /\ UNCHANGED <<arg, brief, options, extract, narrative, messaging, plan, calls, conceptAnswer, out2>>
  /\ UNCHANGED serverVars

Next ==
  \/ RejectRequest
  \/ OnePass
  \/ ExtractBrief
  \/ PlanNarrative
  \/ PlanMessaging
  \/ AssembleDeck
  \/ EditDeck
  \/ RefineConcept
  \/ GenerationFails
  \/ Respond

Spec == InitPlan /\ [][Next]_vars

-----------------------------------------------------------------------------
(* The slide item of the deck schema (buildDeckSchema), by field.          *)

\* `required` of the slide item
SlideRequired ==
  << "kind", "layout", "section", "setup_line", "takeaway", "bridge_line", "title", "subtitle",
     "bullets", "stat", "quote", "agenda_items", "cards", "timeline_items", "kpis",
     "status_items", "table", "pricing", "matrix", "steps", "people", "logo_items", "cta",
     "swot", "funnel", "now_next_later", "okrs", "case_study", "chart", "org_chart", "faq",
     "image_prompt", "speaker_notes" >>

\* `type` of each required property of the slide item
SlideFieldType(f) ==
  CASE f \in {"kind", "layout", "section", "setup_line", "takeaway", "bridge_line", "title",
              "subtitle", "image_prompt", "speaker_notes"} -> "string"
    [] f = "bullets" -> "strings"
    [] f \in {"agenda_items", "cards", "timeline_items", "kpis", "status_items", "steps",
              "people", "logo_items", "funnel", "okrs", "faq"} -> "array_or_null"
    [] OTHER -> "object_or_null"

\* maxItems of bullets
MaxBullets == 8

\* v is a value of the declared type
HasSchemaType(v, ty) ==
  CASE ty = "string" -> v.t = "str"
    [] ty = "strings" ->
         /\ v.t = "arr"
         /\ Len(v.a) <= MaxBullets
         /\ \A i \in 1..Len(v.a) : v.a[i].t = "str"
    [] ty = "array_or_null" -> v.t \in {"arr", "null"}
    [] OTHER -> v.t \in {"obj", "null"}

\* the slide carries every required field with its declared type
SlideMatchesSchema(s) ==
  \A i \in 1..Len(SlideRequired) :
    HasSchemaType(Get(s, SlideRequired[i]), SlideFieldType(SlideRequired[i]))

-----------------------------------------------------------------------------
(* Properties of normalizePlan, checked on the normalization runs          *)
(* (SpecNormalize).                                                        *)

\* normalizePlan has returned a plan for the input
Normalized == pc \in {"normalized", "renormalized"} /\ out # Throw

\* C1: for every input plan and every options value the plan returned by
\* normalizePlan has between 5 and 30 slides, also when the input's slide list
\* is missing, empty or shorter than 5.
C1_SlideCountWithinBounds ==
  Normalized => /\ 5 <= Len(out.o.slides.a)
                /\ Len(out.o.slides.a) <= SAFE_MAX_SLIDES

\* C4: normalizePlan never throws, whatever the plan (null, undefined, a
\* slides field that is not an array, slides with fields of the wrong type).
C4_NormalizeNeverThrows ==
  pc \in {"normalized", "renormalized"} => out # Throw

\* C5: normalizePlan is idempotent: applied to its own result with the same
\* options it returns that result again, slide for slide and field for field.
C5_NormalizeIdempotent ==
  pc = "renormalized" => out2 = out

\* C6: every slide of the plan returned by normalizePlan, whether derived from
\* the input or injected as an anchor, carries every required slide field of
\* the deck schema with its declared type (bullets: at most 8 strings).
C6_SlidesMatchSchema ==
  Normalized => \A i \in 1..Len(out.o.slides.a) : SlideMatchesSchema(out.o.slides.a[i])

\* the layouts of a returned plan are strings of SLIDE_LAYOUTS
LayoutsEnumerated(p) ==
  \A i \in 1..Len(p.o.slides.a) :
    /\ Get(p.o.slides.a[i], "layout").t = "str"
    /\ InSeq(Get(p.o.slides.a[i], "layout").s, SLIDE_LAYOUTS)

-----------------------------------------------------------------------------
(* Properties of lockDeckPlanToAgency10, checked on the structural-lock    *)
(* runs (SpecLock).                                                        *)

\* C3: for any draft plan (any number of slides, any kinds, slides missing or
\* not an array) lockDeckPlanToAgency10 returns exactly 10 slides whose kind
\* at position i is the i-th kind of AGENCY_CREATIVE_10, also for a slide
\* matched through an alias kind.
C3_LockedKindsCanonical ==
  pc = "locked" =>
    /\ IsArray(Get(out, "slides"))
    /\ Len(out.o.slides.a) = Len(AGENCY_CREATIVE_10)
    /\ \A i \in 1..Len(AGENCY_CREATIVE_10) :
         Get(out.o.slides.a[i], "kind") = Str(AGENCY_CREATIVE_10[i].kind)

\* a draft slide was reused at a position whose canonical kind differs from
\* the slide's own kind
C3_Witness ==
  /\ pc = "locked"
  /\ LET m == AgencyMatches(plan)
     IN \E k \in 1..Len(AGENCY_CREATIVE_10) :
          /\ m[k] # 0
          /\ Get(ExistingSlides(plan)[m[k]], "kind") # Str(AGENCY_CREATIVE_10[k].kind)
          /\ Get(out.o.slides.a[k], "title") = Get(ExistingSlides(plan)[m[k]], "title")

\* C10: the matching of required kinds to draft slides is injective: no draft
\* slide index is taken for two different required kinds, also when the draft
\* holds several slides of one kind.
C10_MatchingInjective ==
  pc = "locked" =>
    LET m == AgencyMatches(plan)
    IN \A i, j \in 1..Len(AGENCY_CREATIVE_10) : (i # j /\ m[i] # 0) => m[i] # m[j]

\* the draft holds two slides whose kinds both belong to one position, and
\* two positions have taken a draft slide
C10_Witness ==
  /\ pc = "locked"
  /\ \E a, b \in 1..Len(ExistingSlides(plan)) :
       /\ a # b
       /\ \E k \in 1..Len(AGENCY_CREATIVE_10) :
            /\ InSeq(KindLower(ExistingSlides(plan)[a]), AGENCY_CREATIVE_10[k].slide_kinds)
            /\ InSeq(KindLower(ExistingSlides(plan)[b]), AGENCY_CREATIVE_10[k].slide_kinds)
  /\ LET m == AgencyMatches(plan)
     IN Cardinality({k \in 1..Len(AGENCY_CREATIVE_10) : m[k] # 0}) >= 2

-----------------------------------------------------------------------------
(* Properties of a planning request, checked on the runs of POST /api/plan *)
(* (Spec).                                                                 *)

\* the request is locked to the ad_agency archetype: requested or suggested
LockedRequest == shouldLockAgency10(extract, options)

\* the route has answered with a plan
Answered == pc = "done" /\ response.status = 200

\* the kinds of a plan's slides, as JS values
KindsOf(p) == [i \in 1..Len(p.o.slides.a) |-> Get(p.o.slides.a[i], "kind")]

CanonicalKinds == [i \in 1..Len(AGENCY_CREATIVE_10) |-> Str(AGENCY_CREATIVE_10[i].kind)]

\* C2: for every request whose requested or suggested deck type is ad_agency
\* the plan handed to the caller (planDeck, then normalizePlan with the same
\* options) has exactly the 10 canonical kinds in order, whatever
\* options.nSlides, options.twoPass and options.editorPass are and whatever
\* the narrative, assembly and editorial stages returned.
C2_LockedPlanCanonical ==
  (Answered /\ LockedRequest) => KindsOf(response.plan) = CanonicalKinds

\* options.nSlides is a number n in 5..30
CountRequested ==
  /\ Get(options, "nSlides").t = "num"
  /\ Get(options, "nSlides").n \in 5..SAFE_MAX_SLIDES

\* C9: for a request that is not locked, with options.nSlides = n in 5..30,
\* the final normalized plan has exactly n slides, whatever number of slides
\* the assembly and editorial stages returned.
C9_UnlockedCountExact ==
  (Answered /\ ~LockedRequest /\ CountRequested)
    => Len(response.plan.o.slides.a) = Get(options, "nSlides").n

\* the concept gate has run to its end on this request
GateRan ==
  /\ pc \in {"planned", "done"}
  /\ \E i \in 1..Len(calls) : calls[i].stage = "concept"
  /\ plan # Undef

\* the title of the creative_concept slide of a plan
ConceptTitle(p) ==
  ToStringJS(OrElse(Get(ExistingSlides(p)[ConceptIndex(ExistingSlides(p))], "title"), Str("")))

AnswerNotWeak ==
  /\ conceptAnswer # Undef
  /\ ~isWeakAgencyConceptLine(ToStringJS(OrElse(Get(conceptAnswer, "concept_line"), Str(""))),
                              brief)

-----------------------------------------------------------------------------
(* Failure, parsing and provider properties of a planning request (Spec).  *)

\* the stages in the order of the log
StagesCalled == [i \in 1..Len(calls) |-> calls[i].stage]

\* the request has been answered with an error after a stage threw
StageFailed == pc = "done" /\ response.status = 500 /\ response.error # "normalize"

\* C11: if the generation call of any stage fails, planDeck aborts: no later
\* stage's call is issued, no retry is made, and the caller receives an error
\* response that holds no plan.  As a state property: once a response exists
\* the request is over; a failure response names the stage of the last call of
\* the log and carries no plan; no stage is called twice.
C11_FailureAborts ==
  /\ response # Undef => pc = "done"
  /\ \A i, j \in 1..Len(calls) : i # j => calls[i].stage # calls[j].stage
  /\ \A i \in 1..Len(calls) :
       (calls[i].answer \in {"rejected", "text"}) => (i = Len(calls) /\ StageFailed)
  /\ StageFailed =>
       /\ "plan" \notin DOMAIN response
       /\ Len(calls) > 0
       /\ response.error = calls[Len(calls)].stage

\* the assembly call was rejected after three stages had answered: the
\* request ends with an error and the stages' results are not delivered
C11_Witness ==
  /\ StageFailed
  /\ response.error = "assemble"
  /\ calls[Len(calls)].answer = "rejected"
  /\ StagesCalled = <<"extract", "narrative", "messaging", "assemble">>
  /\ messaging # Undef


\* `required` of the deck schema
DeckRequired ==
  << "deck_type", "deck_title", "deck_subtitle", "recommended_slide_count", "theme", "slides" >>

\* minItems of slides in the deck schema
MinSlides == 5

\* v validates against the deck schema: the required fields, 5..30 slides,
\* every slide with its required fields
DeckPlanValid(v) ==
  /\ v.t = "obj"
  /\ \A i \in 1..Len(DeckRequired) : DeckRequired[i] \in DOMAIN v.o
  /\ IsArray(Get(v, "slides"))
  /\ Len(Get(v, "slides").a) \in MinSlides..SAFE_MAX_SLIDES
  /\ \A i \in 1..Len(Get(v, "slides").a) : SlideMatchesSchema(Get(v, "slides").a[i])

\* C12: with either provider a stage's call is treated as failed whenever the
\* returned content does not parse as JSON or does not validate against the
\* stage's schema: a completion that is not pure JSON ends the request with
\* an error, and the draft plan handed to the editorial stage is a valid deck
\* plan.
C12_NonconformingAnswersFail ==
  /\ \A i \in 1..Len(calls) :
       calls[i].answer \in {"prose", "text", "empty"} => (pc = "done" /\ response.status = 500)
  /\ pc = "edit" => DeckPlanValid(plan)


\* the provider the request names, lower-cased ("openai" when it names none)
ProviderNamed == ToLower(ToStringJS(OrElse(Get(options, "provider"), Str("openai"))))

HasAuditFields(p) ==
  /\ Get(p, "_extract") = extract
  /\ Get(p, "_narrative") = narrative
  /\ Get(p, "_messaging") = messaging

\* C14: the deck plan delivered to the caller of a two-pass request retains
\* _extract, _narrative (the narrative actually used) and _messaging, both on
\* planDeck's result and after normalizePlan.
C14_AuditFieldsRetained ==
  (Answered /\ TwoPass(options)) => (HasAuditFields(plan) /\ HasAuditFields(response.plan))

-----------------------------------------------------------------------------
(* Classifier runs: isWeakAgencyConceptLine applied to a line and a brief. *)

ConceptLineSamples ==
  { "", "   ", WeakLine, StrongLine, AnswerLine,
    "Creative Concept", "Big idea", "vibes", "Electricity",
    "Visible, Vibrant, Victorious", "Bold, bright, Brave", "Bold, Bright", "Loud, Proud, City",
    "Loud, proud, louder, live",
    "Summer Campaign", "  Radio campaign of the year", "Our Summer Campaign", "Campaigns that listen",
    "Out of Home Campaign", "The OOH campaign for the city", "Ooh what a campaign",
    "One. Two. Three. Four. Five. Six. Seven.",
    "Tune in to the sound of a city that never stops moving forward",
    "Tune in to the sound of a city that never stops moving forward today",
    "We make the whole town sing along every single day" }

\* briefs with radio keywords, with none of the whitelist, with the word
\* campaign, and the empty brief
ClassifierBriefs ==
  { BriefRadio, BriefBoard, "", "An out of home campaign for a bank." }

InitWeak ==
  /\ pc = "line"
  /\ arg \in { Str(l) : l \in ConceptLineSamples }
  /\ brief \in ClassifierBriefs
  /\ options = Undef
  /\ extract = Undef
  /\ narrative = Undef
  /\ messaging = Undef
  /\ plan = Undef
  /\ calls = <<>>
  /\ conceptAnswer = Undef
  /\ out = Undef
  /\ out2 = Undef
  /\ response = Undef
  /\ ServerIdle

Classify ==
  /\ pc = "line"
  /\ out' = Bool(isWeakAgencyConceptLine(arg.s, brief))
  /\ pc' = "classified"
  /\ UNCHANGED <<arg, brief, options, extract, narrative, messaging, plan, calls, conceptAnswer,
                 out2, response>>
  /\ UNCHANGED serverVars

NextWeak == Classify

SpecWeak == InitWeak /\ [][NextWeak]_vars

\* the five rules as the classifier is described
RuleColon(line) == Includes(line, ":")

RuleCampaignPhrase(line) ==
  \/ StartsWordCampaign(line)
  \/ HasWord(line, "campaign") /\ (HasWord(line, "out of home") \/ HasWord(line, "ooh"))

RuleAlliteration(line) ==
  LET parts == FilterSeq(LAMBDA q : q # "", MapSeq(Trim, SplitBy(Trim(line), ",")))
  IN /\ Len(parts) >= 3
     /\ \A i \in 1..Len(parts) : ToLower(Ch(parts[i], 1)) = ToLower(Ch(parts[1], 1))

RuleTooLong(line) == WordCount(Trim(line)) > 12

\* at most 6 words and no token shared with the keywords of the brief
RuleNoKeyword(line, text) ==
  /\ WordCount(Trim(line)) <= 6
  /\ ~\E k \in briefKeywords(text) : Includes(ToLower(line), k)

\* C15: isWeakAgencyConceptLine(line, brief) returns true exactly when at
\* least one of the five rules fires: (a) a colon, (b) '<word> Campaign' or
\* 'Out of Home Campaign' phrasing, (c) a comma-separated list of 3 or more
\* items with one first letter, (d) more than 12 words, (e) at most 6 words
\* and no token shared with the brief-keyword whitelist; false otherwise.
C15_WeakIffRuleFires ==
  pc = "classified" =>
    (out = Bool(TRUE)) <=>
      \/ RuleColon(arg.s)
      \/ RuleCampaignPhrase(arg.s)
      \/ RuleAlliteration(arg.s)
      \/ RuleTooLong(arg.s)
      \/ RuleNoKeyword(arg.s, brief)

-----------------------------------------------------------------------------
(* Outline runs: extractExplicitOutlineSignals applied to a brief made of   *)
(* a few lines.                                                             *)

OutlineLines ==
  { "Slide 3: Market Overview", "Slide 3: Intro", "3) Agenda", "  PAGE 12 - Pricing  \r",
    "Slide 007: Budget - Plan", "7. Seven reasons to believe", "About 18-22 slides",
    "Slide 3:", "Notes for the board" }

MaxOutlineLines == 3

RECURSIVE JoinLines(_)
JoinLines(lines) ==
  IF Len(lines) = 1 THEN lines[1] ELSE lines[1] \o "\n" \o JoinLines(Tail(lines))

InitOutline ==
  /\ pc = "text"
  /\ \E k \in 1..MaxOutlineLines : \E lines \in [1..k -> OutlineLines] :
       /\ arg = lines
       /\ brief = JoinLines(lines)
  /\ options = Undef
  /\ extract = Undef
  /\ narrative = Undef
  /\ messaging = Undef
  /\ plan = Undef
  /\ calls = <<>>
  /\ conceptAnswer = Undef
  /\ out = Undef
  /\ out2 = Undef
  /\ response = Undef
  /\ ServerIdle

ScanOutline ==
  /\ pc = "text"
  /\ out' = extractExplicitOutlineSignals(brief)
  /\ pc' = "scanned"
  /\ UNCHANGED <<arg, brief, options, extract, narrative, messaging, plan, calls, conceptAnswer,
                 out2, response>>
  /\ UNCHANGED serverVars

NextOutline == ScanOutline

SpecOutline == InitOutline /\ [][NextOutline]_vars

\* lines of the form 'Slide N: <title>' with the number and the title they state
SlideLines ==
  { [line |-> "Slide 3: Market Overview", n |-> 3, title |-> "Market Overview"],
    [line |-> "Slide 3: Intro", n |-> 3, title |-> "Intro"],
    [line |-> "Slide 007: Budget - Plan", n |-> 7, title |-> "Budget - Plan"] }

HasEntry(signals, n, title) ==
  \E i \in 1..Len(Get(signals, "outline").a) :
    Get(signals, "outline").a[i] = Obj([slide |-> Num(n), title |-> Str(title)])

\* an earlier line of the text gives an item with the same slide number
NumberTakenBefore(lines, i, n) ==
  \E j \in 1..(i - 1) : Len(LineItems(lines[j])) > 0 /\ LineItems(lines[j])[1].n = n

\* C16 (as stated): for any brief text that contains a line of the form
\* 'Slide N: <title>', the outline returned by extractExplicitOutlineSignals
\* contains an entry with slide number N and exactly that title, whatever
\* other numbered or 'Slide'/'Page' lines the text contains before or after.
C16_SlideLineAlwaysYieldsEntry ==
  pc = "scanned" =>
    \A i \in 1..Len(arg) : \A f \in SlideLines :
      arg[i] = f.line => HasEntry(out, f.n, f.title)

\* C16 (amended): a line 'Slide N: <title>' yields the entry with slide
\* number N and that title provided no earlier line of the text gives an
\* item with the same slide number; the outline holds one entry per slide
\* number, in ascending order.
C16_SlideLineYieldsEntryUnlessNumberTaken ==
  pc = "scanned" =>
    LET o == Get(out, "outline").a
    IN /\ \A i \in 1..Len(arg) : \A f \in SlideLines :
            (arg[i] = f.line /\ ~NumberTakenBefore(arg, i, f.n)) => HasEntry(out, f.n, f.title)
       /\ \A i \in 1..(Len(o) - 1) : Get(o[i], "slide").n < Get(o[i + 1], "slide").n

\* a slide marker that follows a list line of another number and precedes a
\* marker of its own number is in the outline
C16_Witness ==
  /\ pc = "scanned"
  /\ arg = <<"7. Seven reasons to believe", "Slide 3: Market Overview", "Slide 3: Intro">>
  /\ HasEntry(out, 3, "Market Overview")
  /\ HasEntry(out, 7, "Seven reasons to believe")

-----------------------------------------------------------------------------
(* Layout-inference runs: inferLayoutFromKind applied to a kind.            *)

KindTexts ==
  {
    "Cover Review", "Agenda Review", "Section Review", "Timeline Review", "Roadmap Review",
    "Swot Review", "Funnel Review", "Now Review", "Next Review", "Later Review", "Okr Review",
    "Okrs Review", "Case Study Review", "Casestudy Review", "Chart Review", "Trend Review",
    "Diagram Review", "Flow Review", "Org Review", "Organisation Review",
    "Organization Review", "Faq Review", "Q&A Review", "Kpi Review", "Metrics Review",
    "Dashboard Review", "Status Review", "Ryg Review", "Traffic Review", "Pricing Review",
    "Package Review", "Comparison Review", "Matrix Review", "Process Review", "Steps Review",
    "Team Review", "Clients Review", "Logos Review", "Pillar Review", "Infographic Review",
    "Cta Review", "Next Steps Review", "Contact Review", "Q3 KPI Dashboard", "Client Logos",
    "CLIENT LOGOS", "kpi", "logos", "Team Org Chart", "Roadmap Cover", "Discover", "Workflow",
    "Snow", "Next Steps", "Now, Next, Later", "now next", "What we know now", "Later on",
    "Pricing Comparison", "Status of the KPI", "Our Team and Clients", "Contact the Team",
    "Agenda and Cover", "Logos of the Pillar Clients", "Infographic about Steps", "content",
    "quote", "closing", "Big Idea", "", "CTA", "Call to action: Contact us", "FAQ / Q&A" }

\* string kinds, and values that are not strings
KindSamples ==
  { Str(k) : k \in KindTexts } \cup { Undef, Null, Num(0), Num(7), Bool(TRUE), Arr(<<Str("KPI"), Str("x")>>) }

InitInfer ==
  /\ pc = "kind"
  /\ arg \in KindSamples
  /\ brief = ""
  /\ options = Undef
  /\ extract = Undef
  /\ narrative = Undef
  /\ messaging = Undef
  /\ plan = Undef
  /\ calls = <<>>
  /\ conceptAnswer = Undef
  /\ out = Undef
  /\ out2 = Undef
  /\ response = Undef
  /\ ServerIdle

Infer ==
  /\ pc = "kind"
  /\ out' = inferLayoutFromKind(arg)
  /\ pc' = "inferred"
  /\ UNCHANGED <<arg, brief, options, extract, narrative, messaging, plan, calls, conceptAnswer,
                 out2, response>>
  /\ UNCHANGED serverVars

NextInfer == Infer

SpecInfer == InitInfer /\ [][NextInfer]_vars

\* the rules in the order the claim reads them, each with its keywords
LayoutRules ==
  << [layout |-> "hero", keywords |-> {"cover"}],
     [layout |-> "agenda", keywords |-> {"agenda"}],
     [layout |-> "section_header", keywords |-> {"section"}],
     [layout |-> "timeline", keywords |-> {"timeline", "roadmap"}],
     [layout |-> "swot", keywords |-> {"swot"}],
     [layout |-> "funnel", keywords |-> {"funnel"}],
     [layout |-> "now_next_later", keywords |-> {"now", "next", "later"}],
     [layout |-> "okr", keywords |-> {"okr", "okrs"}],
     [layout |-> "case_study", keywords |-> {"case study", "casestudy"}],
     [layout |-> "chart_line", keywords |-> {"chart", "trend"}],
     [layout |-> "diagram", keywords |-> {"diagram", "flow"}],
     [layout |-> "org_chart", keywords |-> {"org", "organisation", "organization"}],
     [layout |-> "faq", keywords |-> {"faq", "q&a"}],
     [layout |-> "kpi_dashboard", keywords |-> {"kpi", "metrics", "dashboard"}],
     [layout |-> "traffic_light", keywords |-> {"status", "ryg", "traffic"}],
     [layout |-> "pricing", keywords |-> {"pricing", "package"}],
     [layout |-> "comparison_matrix", keywords |-> {"comparison", "matrix"}],
     [layout |-> "process_steps", keywords |-> {"process", "steps"}],
     [layout |-> "team_grid", keywords |-> {"team"}],
     [layout |-> "logo_wall", keywords |-> {"clients", "logos"}],
     [layout |-> "infographic_3", keywords |-> {"pillar", "infographic"}],
     [layout |-> "cta", keywords |-> {"cta", "next steps", "contact"}] >>

\* the position of the rule that returns the given layout
RuleOf(layout) == CHOOSE r \in 1..Len(LayoutRules) : LayoutRules[r].layout = layout

\* the kind as text, lower-cased
KindText(v) == ToLower(IF v.t \in {"undef", "null"} \/ ~Truthy(v) THEN "" ELSE ToStringJS(v))

AnyKeyword(r, k) == \E w \in LayoutRules[r].keywords : Includes(k, w)
AllKeywords(r, k) == \A w \in LayoutRules[r].keywords : Includes(k, w)

\* the layout of the lowest rule of `matching`, null when there is none
FirstRuleLayout(matching) ==
  IF matching = {} THEN Null
  ELSE Str(LayoutRules[CHOOSE r \in matching : \A q \in matching : r <= q].layout)

\* C17 (as stated): inferLayoutFromKind(kind) lower-cases kind and returns
\* the layout of the first rule, in the fixed rule order, one of whose
\* keywords is a substring of kind, and null when no rule matches.
C17_FirstRuleWithAKeyword ==
  pc = "inferred" =>
    out = FirstRuleLayout({ r \in 1..Len(LayoutRules) : AnyKeyword(r, KindText(arg)) })

\* C17 (amended): inferLayoutFromKind(kind) lower-cases kind and returns the
\* layout of the first matching rule in the fixed rule order, null when no
\* rule matches; a rule matches when one of its keywords is a substring of
\* kind, except the now_next_later rule, which needs all three of its
\* keywords.  A kind containing 'kpi' (or 'logos') and no keyword of an
\* earlier rule yields kpi_dashboard (or logo_wall).
C17_FirstMatchingRule ==
  pc = "inferred" =>
    LET k == KindText(arg)
        earlier(r) == \E q \in 1..(r - 1) : AnyKeyword(q, k)
    IN /\ out = FirstRuleLayout({ r \in 1..Len(LayoutRules) :
                                   IF r = RuleOf("now_next_later") THEN AllKeywords(r, k) ELSE AnyKeyword(r, k) })
       /\ (Includes(k, "kpi") /\ ~earlier(RuleOf("kpi_dashboard"))) => out = Str("kpi_dashboard")
       /\ (Includes(k, "logos") /\ ~earlier(RuleOf("logo_wall"))) => out = Str("logo_wall")
       /\ arg = Str("Q3 KPI Dashboard") => out = Str("kpi_dashboard")
       /\ arg = Str("Client Logos") => out = Str("logo_wall")

\* a mixed-case kind that holds keywords of three rules gets the layout of
\* the earliest of them
C17_Witness ==
  /\ pc = "inferred"
  /\ arg = Str("Team Org Chart")
  /\ out = Str("chart_line")

-----------------------------------------------------------------------------
(* The locked narrative of a planning request (Spec).                       *)

\* section i of the canonical recipe as the claim describes it
IsCanonicalSection(sec, i) ==
  /\ Get(sec, "id") = Str(AGENCY_CREATIVE_10[i].id)
  /\ Get(sec, "name") = Str(AGENCY_CREATIVE_10[i].name)
  /\ Get(sec, "key_message") = Str("")
  /\ Get(sec, "must_include") = Arr(<<>>)
  /\ Get(sec, "slide_kinds") =
       Arr([k \in 1..Len(AGENCY_CREATIVE_10[i].slide_kinds) |-> Str(AGENCY_CREATIVE_10[i].slide_kinds[k])])

\* C18: whenever the lock condition holds, the narrative handed to the
\* messaging, assembly, editorial and gate stages has exactly the 10
\* canonical sections in fixed order, each with key_message "" and
\* must_include [], whatever sections the narrative stage returned; the
\* story_spine and the lexicon are those of the generated narrative.
C18_LockedNarrativeCanonical ==
  (LockedRequest /\ narrative # Undef) =>
    LET secs == Get(narrative, "sections")
    IN /\ IsArray(secs)
       /\ Len(secs.a) = 10
       /\ \A i \in 1..10 : IsCanonicalSection(secs.a[i], i)
       /\ \E g \in NarrativeResults :
            /\ Get(narrative, "story_spine") = Get(g, "story_spine")
            /\ Get(narrative, "lexicon") = Get(g, "lexicon")
       /\ pc = "planned" => Get(plan, "_narrative") = narrative

\* the messaging stage is about to be called with the locked form of a
\* narrative that was generated with four sections of another recipe
C18_Witness ==
  /\ pc = "messaging"
  /\ LockedRequest
  /\ Get(Get(narrative, "story_spine"), "setup") = Str("Setup of sales_deck")
  /\ Len(Get(narrative, "sections").a) = 10

-----------------------------------------------------------------------------
(* The order of the stages of a two-pass request (Spec).                    *)

IsPrefix(s, t) == Len(s) <= Len(t) /\ \A i \in 1..Len(s) : s[i] = t[i]

EditorRequested == Get(options, "editorPass") # Bool(FALSE)

\* the calls of a two-pass request in the order planDeck is read to make them,
\* up to the deck-plan lock
StagesBeforeLock ==
  IF EditorRequested THEN <<"extract", "narrative", "messaging", "assemble", "edit">>
  ELSE <<"extract", "narrative", "messaging", "assemble">>

\* C19: in every two-pass run the stages execute one after the other in the
\* order extract, narrative, narrative lock, messaging, assembly, editorial
\* (if enabled), deck-plan lock, concept gate: a call is issued only when the
\* previous one has returned, the narrative lock is applied before the
\* messaging call, and the deck-plan lock after the editorial call and before
\* the concept gate.
C19_StagesInFixedOrder ==
  Get(options, "twoPass") # Bool(FALSE) =>
    /\ IsPrefix(StagesCalled, StagesBeforeLock \o <<"concept">>)
    /\ \A i \in 1..(Len(calls) - 1) : calls[i].answer \notin {"rejected", "text", "empty"}
    /\ (pc = "messaging" /\ LockedRequest) =>
         /\ StagesCalled = <<"extract", "narrative">>
         /\ Len(Get(narrative, "sections").a) = Len(AGENCY_CREATIVE_10)
    /\ pc = "refine" =>
         /\ LockedRequest
         /\ StagesCalled = StagesBeforeLock
         /\ KindsOf(plan) = CanonicalKinds
    /\ (Len(calls) > 0 /\ calls[Len(calls)].stage = "concept") =>
         LockedRequest /\ pc \in {"planned", "done"}
    /\ pc = "planned" =>
         StagesCalled = IF LockedRequest THEN StagesBeforeLock \o <<"concept">> ELSE StagesBeforeLock

\* a locked request with the editorial stage on has been planned with all
\* six calls made
C19_Witness ==
  /\ pc = "planned"
  /\ LockedRequest
  /\ StagesCalled = <<"extract", "narrative", "messaging", "assemble", "edit", "concept">>

-----------------------------------------------------------------------------
(* What a locked slide takes from the draft (SpecLock).                     *)

\* the draft slides whose kind is an alias of required kind p, by index
AliasSlides(p) ==
  { i \in 1..Len(ExistingSlides(plan)) :
      \E a \in 1..Len(AGENCY_CREATIVE_10[p].slide_kinds) :
        KindLower(ExistingSlides(plan)[i]) = ToLower(AGENCY_CREATIVE_10[p].slide_kinds[a]) }

\* the lowest of them; the alias lists of the ten kinds are disjoint, so no
\* other required kind consumes a slide of this one
FirstAliasSlide(p) ==
  ExistingSlides(plan)[CHOOSE i \in AliasSlides(p) : \A j \in AliasSlides(p) : i <= j]

\* the synthesized title: the section name, the deck title for the title slide
PlaceholderTitle(p) ==
  IF AGENCY_CREATIVE_10[p].kind = "title" THEN Get(out, "deck_title") ELSE Str(AGENCY_CREATIVE_10[p].name)

PlaceholderLayout(p) ==
  Str(defaultLayoutByKind(isAgencyTypographic(options))[AGENCY_CREATIVE_10[p].kind])

\* the draft slide carries the four fields in the shape the deck schema gives them
WellFormed(m) ==
  /\ \A f \in {"title", "subtitle", "layout"} : Get(m, f).t = "str" /\ Get(m, f).s # ""
  /\ IsArray(Get(m, "bullets"))

\* the bullets the locked slide of kind k keeps of the draft slide's bullets b
KeptBullets(b, k) ==
  LET sparse == IF k \in {"communication_pillars", "current_audience", "opportunity"} THEN 3 ELSE 2
  IN IF isAgencyTypographic(options) THEN Slice(b, sparse)
     ELSE IF k = "creative_concept" THEN Slice(b, 3)
     ELSE b

\* C20 (as stated): for each required kind the output slide reuses the
\* title, subtitle, bullets and layout of the lowest-index draft slide whose
\* kind is one of its aliases.
C20_ReusesAllFourFields ==
  pc = "locked" =>
    \A p \in 1..Len(AGENCY_CREATIVE_10) :
      (AliasSlides(p) # {} /\ WellFormed(FirstAliasSlide(p))) =>
        \A f \in {"title", "subtitle", "bullets", "layout"} :
          Get(out.o.slides.a[p], f) = Get(FirstAliasSlide(p), f)

\* C20 (amended): for each required kind the output slide reuses the title,
\* subtitle and layout of the lowest-index draft slide whose kind
\* (case-insensitively) is one of its aliases, and the first bullets of that
\* slide: at most 3 for the creative concept, and in agency_typographic style
\* at most 2 (3 for communication_pillars, current_audience, opportunity).
\* Without such a slide the output slide is a placeholder with the default
\* layout of the kind, no bullets and the section name (the deck title for
\* the title slide) as title; an empty or missing title or layout of the
\* draft slide is replaced by the placeholder's.
C20_ReusesFieldsBulletsCapped ==
  pc = "locked" =>
    \A p \in 1..Len(AGENCY_CREATIVE_10) :
      LET o == out.o.slides.a[p]
          m == FirstAliasSlide(p)
      IN IF AliasSlides(p) = {}
         THEN /\ Get(o, "title") = PlaceholderTitle(p)
              /\ Get(o, "layout") = PlaceholderLayout(p)
              /\ Get(o, "bullets") = Arr(<<>>)
         ELSE /\ Get(o, "title") = (IF Truthy(Get(m, "title")) THEN Get(m, "title") ELSE PlaceholderTitle(p))
              /\ Get(o, "layout") = (IF Truthy(Get(m, "layout")) THEN Get(m, "layout") ELSE PlaceholderLayout(p))
              /\ Truthy(Get(m, "subtitle")) => Get(o, "subtitle") = Get(m, "subtitle")
              /\ Get(o, "bullets") =
                   (IF IsArray(Get(m, "bullets"))
                    THEN Arr(KeptBullets(Get(m, "bullets").a, AGENCY_CREATIVE_10[p].kind))
                    ELSE Arr(<<>>))

\* the draft holds two cover slides after a slide of no required kind: the
\* title slide reuses the first of them with all its bullets, and the other
\* positions are placeholders
C20_Witness ==
  /\ pc = "locked"
  /\ ~isAgencyTypographic(options)
  /\ Len(ExistingSlides(plan)) = 3
  /\ AliasSlides(1) = {2, 3}
  /\ Get(out.o.slides.a[1], "title") = Str("Draft 2")
  /\ Len(Get(out.o.slides.a[1], "bullets").a) = 4
  /\ Get(out.o.slides.a[7], "title") = Str("Creative Concept")

-----------------------------------------------------------------------------
(* Layout repair, trimming and slide order in normalizePlan (SpecNormalize). *)

\* the slides of the input plan and of the returned plan
InputSlides == IF IsArray(Get(plan, "slides")) THEN Get(plan, "slides").a ELSE <<>>
OutputSlides == out.o.slides.a

\* slide s carries a layout string that is not a member of SLIDE_LAYOUTS
HasUnknownLayout(s) ==
  /\ Get(s, "layout").t = "str"
  /\ Get(s, "layout").s # ""
  /\ ~InSeq(Get(s, "layout").s, SLIDE_LAYOUTS)

\* output slide o stems from input slide s: the kind and the title are s's
StemsFrom(o, s) ==
  /\ Get(s, "kind").t = "str"
  /\ Get(s, "title").t = "str"
  /\ Get(o, "kind") = Get(s, "kind")
  /\ Get(o, "title") = Get(s, "title")

\* C21: in normalizePlan a slide whose layout string is not a member of
\* SLIDE_LAYOUTS gets the layout inferred from its kind by inferLayoutFromKind
\* when that inference yields a layout, and the generic 'split' layout
\* otherwise, at every slide position including the first.
C21_UnknownLayoutInferredFromKind ==
  Normalized =>
    \A i \in 1..Len(InputSlides) : \A j \in 1..Len(OutputSlides) :
      (HasUnknownLayout(InputSlides[i]) /\ StemsFrom(OutputSlides[j], InputSlides[i])) =>
        Get(OutputSlides[j], "layout") =
          (IF inferLayoutFromKind(Get(InputSlides[i], "kind")) # Null
           THEN inferLayoutFromKind(Get(InputSlides[i], "kind"))
           ELSE Str("split"))


\* the slides as they stand when the trimming loop starts
SlidesBeforeTrim ==
  LET mapped == [i \in 1..Len(InputSlides) |-> NormalizeSlide(InputSlides[i], i - 1)]
  IN IF out.o.deck_type # Str("ad_agency") THEN InjectAnchors(mapped, plan) ELSE mapped

RECURSIVE AnchorsOf(_)
AnchorsOf(slides) ==
  IF slides = <<>> THEN <<>>
  ELSE (IF IsAnchorLayout(Head(slides)) THEN <<Head(slides)>> ELSE <<>>) \o AnchorsOf(Tail(slides))

\* C22: trimming never removes an anchor slide: the slides with layout quote
\* or infographic_3 that stand in the list before trimming are all in the
\* returned plan, in their order, however many of them there are.
C22_TrimKeepsAnchors ==
  Normalized => AnchorsOf(OutputSlides) = AnchorsOf(SlidesBeforeTrim)


-----------------------------------------------------------------------------
(* The concept gate of a locked request (Spec).                            *)

\* the locked plan stands before the gate and has a concept slide
AtGate == pc = "refine" /\ ConceptIndex(ExistingSlides(plan)) # 0

\* the calls of the log made by the concept gate
GateCalls == { i \in 1..Len(calls) : calls[i].stage = "concept" }

\* C23: for a locked request the concept gate issues its regeneration call
\* if and only if the title of the current concept slide is weak by
\* isWeakAgencyConceptLine, and at most once per request: a step of the gate
\* on a title that is not weak adds no call to the log.
C23_CallIffTitleWeak ==
  [][ AtGate =>
        /\ (calls' # calls) <=> isWeakAgencyConceptLine(ConceptTitle(plan), brief)
        /\ Cardinality({ i \in 1..Len(calls') : calls'[i].stage = "concept" }) <= 1 ]_vars


\* the fields of a slide the gate may rewrite
GateFields == {"title", "subtitle", "bullets"}

\* two objects agree on every field outside `except`
SameExcept(a, b, except) ==
  /\ (DOMAIN a.o) \ except = (DOMAIN b.o) \ except
  /\ \A f \in (DOMAIN a.o) \ except : a.o[f] = b.o[f]

\* the slides `a` differ from the slides `b` in nothing but the title,
\* subtitle and bullets of the concept slide
OnlyConceptCopyChanged(b, a) ==
  /\ Len(a) = Len(b)
  /\ \A i \in 1..Len(b) :
       IF i = ConceptIndex(b) THEN SameExcept(b[i], a[i], GateFields) ELSE a[i] = b[i]

\* C24: the concept gate changes nothing but the title, subtitle and bullets
\* of the first slide of kind creative_concept or big_idea: the plan that
\* leaves the gate has the same slides in the same order, every other slide,
\* every other field of the concept slide and every other field of the plan
\* as they were, whatever the regeneration call answered (the audit fields
\* are attached by planDeck once the gate has returned).
C24_GateTouchesConceptCopyOnly ==
  [][ (AtGate /\ pc' = "planned") =>
        /\ SameExcept(AttachAudit(plan, extract, narrative, messaging), plan', {"slides"})
        /\ OnlyConceptCopyChanged(ExistingSlides(plan), ExistingSlides(plan')) ]_vars

\* the gate has rewritten the copy of the concept slide of a ten-slide plan
C24_Witness ==
  /\ GateRan
  /\ pc = "planned"
  /\ conceptAnswer # Undef
  /\ Len(ExistingSlides(plan)) = Len(AGENCY_CREATIVE_10)
  /\ Get(ExistingSlides(plan)[ConceptIndex(ExistingSlides(plan))], "subtitle") = Str("Why it works")
  /\ Get(ExistingSlides(plan)[ConceptIndex(ExistingSlides(plan))], "bullets")
       = Arr(<<Str("p1"), Str("p2"), Str("p3")>>)


\* the concept_line of an answer as the gate reads it
ReturnedLine(resp) == Trim(ToStringJS(OrElse(Get(resp, "concept_line"), Str(""))))

\* C25: when the regeneration call answers keep_existing = true but the
\* current title is weak, the classifier wins and the title becomes the
\* returned concept_line when that is not empty; and the current title is kept
\* only when keep_existing is true and the current title is not weak.
C25_KeptOnlyWhenKeepAndNotWeak ==
  [][ (AtGate /\ pc' = "planned") =>
        LET weak == isWeakAgencyConceptLine(ConceptTitle(plan), brief)
            keep == Truthy(Get(conceptAnswer', "keep_existing"))
        IN /\ (keep /\ weak /\ ReturnedLine(conceptAnswer') # "")
                => ConceptTitle(plan') = ReturnedLine(conceptAnswer')
           /\ ConceptTitle(plan') = ConceptTitle(plan) => (keep /\ ~weak) ]_vars

\* C25 (as the gate behaves): when the regeneration call answers
\* keep_existing = true but the current title is weak, the title becomes the
\* returned concept_line when that is not empty; and the current title is kept
\* only when keep_existing is true and the current title is not weak, or when
\* the call returned no line to put in its place (an empty completion or an
\* empty concept_line), or the returned line is the current title itself.
C25_ClassifierOverridesKeep ==
  [][ (AtGate /\ pc' = "planned") =>
        LET weak == isWeakAgencyConceptLine(ConceptTitle(plan), brief)
            keep == Truthy(Get(conceptAnswer', "keep_existing"))
        IN /\ (keep /\ weak /\ ReturnedLine(conceptAnswer') # "")
                => ConceptTitle(plan') = ReturnedLine(conceptAnswer')
           /\ ConceptTitle(plan') = ConceptTitle(plan)
                => \/ keep /\ ~weak
                   \/ ReturnedLine(conceptAnswer') = ""
                   \/ ReturnedLine(conceptAnswer') = ConceptTitle(plan) ]_vars

\* the Gemini gate was told to keep the line and has replaced it all the same
C25_Witness ==
  /\ GateRan
  /\ pc = "planned"
  /\ Backend(options) = "gemini"
  /\ Get(conceptAnswer, "keep_existing") = Bool(TRUE)
  /\ ConceptTitle(plan) = AnswerLine


\* the input slides as the map callback returns them
MappedSlides == [i \in 1..Len(InputSlides) |-> NormalizeSlide(InputSlides[i], i - 1)]

\* a without the elements that are in drop
RECURSIVE Without(_, _)
Without(a, drop) ==
  IF a = <<>> THEN <<>>
  ELSE (IF Head(a) \in drop THEN <<>> ELSE <<Head(a)>>) \o Without(Tail(a), drop)

\* a is b with some elements left out
RECURSIVE IsSubsequence(_, _)
IsSubsequence(a, b) ==
  IF a = <<>> THEN TRUE
  ELSE IF b = <<>> THEN FALSE
  ELSE IF Head(a) = Head(b) THEN IsSubsequence(Tail(a), Tail(b))
  ELSE IsSubsequence(a, Tail(b))

\* the slides of the returned plan that stem from the input
SurvivingSlides == Without(OutputSlides, {AnchorInfographic, AnchorQuote(plan)})

\* C26: normalizePlan never reorders slides: the input slides that survive
\* into the returned plan stand there in the order they have in the input,
\* whatever anchors were injected and whatever was trimmed.
C26_OrderPreserved ==
  Normalized => IsSubsequence(SurvivingSlides, MappedSlides)

\* both anchors were injected between input slides, slides were trimmed, and
\* input slides stand on both sides of an anchor
C26_Witness ==
  /\ Normalized
  /\ Len(OutputSlides) < Len(InputSlides)
  /\ \E i, j, k \in 1..Len(OutputSlides) :
       /\ i < j /\ j < k
       /\ OutputSlides[j] = AnchorInfographic
       /\ OutputSlides[i] \notin {AnchorInfographic, AnchorQuote(plan)}
       /\ OutputSlides[k] \notin {AnchorInfographic, AnchorQuote(plan)}
  /\ \E j \in 1..Len(OutputSlides) : OutputSlides[j] = AnchorQuote(plan)


-----------------------------------------------------------------------------
(* Export jobs and their progress streams (src/server/index.js).  A job's  *)
(* k-th event is written k; a list of events is kept as its maximal runs   *)
(* <<lo, hi>> of consecutive numbers, so <<1, 2, 3, 3, 7>> is              *)
(* << <<1, 3>>, <<3, 3>>, <<7, 7>> >>.                                     *)

\* `if (job.events.length > 2000) job.events.shift()`
MaxBufferedEvents == 2000

\* SSE requests made in a run
MaxStreams == 2

\* the job ids that requests name: the id of the run's job and an id that was
\* never issued
RequestIds == {1, 2}

\* slides of the plans posted: short decks, and a deck whose export emits
\* more events than the buffer holds
ShortDecks == {0, 1, 2}
LongDeck == MaxBufferedEvents \div 2

\* list.push(k)
RunPush(list, k) ==
  IF list # <<>> /\ list[Len(list)][2] + 1 = k
  THEN [list EXCEPT ![Len(list)] = <<@[1], k>>]
  ELSE Append(list, <<k, k>>)

\* list.length
RECURSIVE RunCount(_)
RunCount(list) ==
  IF list = <<>> THEN 0 ELSE (Head(list)[2] - Head(list)[1] + 1) + RunCount(Tail(list))

\* list.shift()
RunShift(list) ==
  IF list = <<>> THEN <<>>
  ELSE IF Head(list)[1] = Head(list)[2] THEN Tail(list)
  ELSE <<<<Head(list)[1] + 1, Head(list)[2]>>>> \o Tail(list)

\* list followed by the elements of more, one push each
RECURSIVE RunConcat(_, _)
RunConcat(list, more) ==
  IF more = <<>> THEN list
  ELSE IF list # <<>> /\ list[Len(list)][2] + 1 = Head(more)[1]
       THEN RunConcat([list EXCEPT ![Len(list)] = <<@[1], Head(more)[2]>>], Tail(more))
       ELSE RunConcat(Append(list, Head(more)), Tail(more))

\* the job object POST /api/export_job creates
NewJob(n, thumbs) ==
  [ status |-> "queued", events |-> <<>>, subscribers |-> {}, filePath |-> "",
    emitted |-> 0,        \* events pushed so far
    at |-> "queued",      \* the await the export stands at
    slides |-> n,         \* plan.slides.length
    shown |-> 0,          \* slides announced by onSlide
    thumbs |-> thumbs,    \* the converter yields a PNG (or fails) for every slide
    aged |-> FALSE ]      \* Date.now() - createdAt > JOB_TTL_MS

\* a response of GET /api/export_job/:id/stream not yet requested
IdleStream == [job |-> 0, state |-> "idle", received |-> <<>>]

\* jobPush(job, event, payload) on the pair of a job and the streams
jobPush(w) ==
  LET k == w.job.emitted + 1
      pushed == RunPush(w.job.events, k)
  IN [ job |-> [w.job EXCEPT !.emitted = k,
                             !.events = IF RunCount(pushed) > MaxBufferedEvents
                                        THEN RunShift(pushed) ELSE pushed],
       streams |-> [s \in DOMAIN w.streams |->
                      IF s \in w.job.subscribers
                      THEN [w.streams[s] EXCEPT !.received = RunPush(@, k)]
                      ELSE w.streams[s]] ]

\* `for (const sub of job.subscribers) sub.end(); job.subscribers.clear()`
endStreams(w) ==
  [ job |-> [w.job EXCEPT !.subscribers = {}],
    streams |-> [s \in DOMAIN w.streams |->
                   IF s \in w.job.subscribers
                   THEN [w.streams[s] EXCEPT !.state = "ended"]
                   ELSE w.streams[s]] ]

\* the job j and the streams after the step that yields w
Settle(j, w) ==
  /\ jobs' = [jobs EXCEPT ![j] = w.job]
  /\ streams' = w.streams

\* the export of job j up to its next await, from the await it stands at
Advanced(job, st) ==
  LET w == [job |-> job, streams |-> st]
      goto(v, at) == [v EXCEPT !.job.at = at]
  IN CASE job.at = "prepare" ->
            \* thumbDir is ready: meta, status starting
            goto(jobPush(jobPush(w)), "clean")
       [] job.at = "clean" ->
            \* ensureCleanTmp is through: status generating_images
            goto(jobPush(w), "images")
       [] job.at = "images" ->
            \* images and logo are there: status images_ready, then the first
            \* slide, or status finalizing for a plan without slides
            IF job.slides = 0 THEN goto(jobPush(jobPush(w)), "write")
            ELSE [goto(jobPush(jobPush(w)), "render") EXCEPT !.job.shown = 1]
       [] job.at = "render" ->
            \* the slide is rendered: its thumbnail (or thumbs_skipped) when
            \* the converter answers, then the next slide or status finalizing
            LET t == IF job.thumbs THEN jobPush(w) ELSE w
            IN IF job.shown < job.slides
               THEN [goto(jobPush(t), "render") EXCEPT !.job.shown = job.shown + 1]
               ELSE goto(jobPush(t), "write")
       [] job.at = "write" ->
            \* pptx.write is through: status done, exportPptx returns
            goto(jobPush(w), "save")

\* the awaits of the export's try block
Awaits == {"prepare", "clean", "images", "render", "write", "save"}

\* POST /api/export_job with a plan of n slides, up to the start of the export
PostExportJob(n, thumbs) ==
  /\ kick = 0
  /\ jobs' = Append(jobs, NewJob(n, thumbs))
  /\ exportJobs' = exportJobs \cup {Len(jobs) + 1}
  /\ kick' = Len(jobs) + 1
  /\ UNCHANGED <<streams, reply, files, exports>>
  /\ UNCHANGED plannerVars

\* the export starts in the same turn: `job.status = 'running'`, then the
\* first await
KickOff ==
  /\ kick # 0
  /\ jobs' = [jobs EXCEPT ![kick].status = "running", ![kick].at = "prepare"]
  /\ kick' = 0
  /\ UNCHANGED <<exportJobs, streams, reply, files, exports>>
  /\ UNCHANGED plannerVars

\* the await the export of job j stands at resolves
Advance(j) ==
  /\ kick = 0
  /\ jobs[j].at \in Awaits \ {"save"}
  /\ Settle(j, Advanced(jobs[j], streams))
  /\ UNCHANGED <<exportJobs, kick, reply, files, exports>>
  /\ UNCHANGED plannerVars

\* a save that marks the job done before the file is written
SaveMarkedFirst(j) ==
  /\ kick = 0
  /\ jobs[j].at \in {"write", "save"}
  /\ jobs[j].status = "running"
  /\ jobs' = [jobs EXCEPT ![j].status = "done"]
  /\ UNCHANGED <<exportJobs, kick, streams, reply, files, exports>>
  /\ UNCHANGED plannerVars

\* fs.writeFile(outPath, buf) is through: filePath, status done, the done
\* event, then the finally block
SaveExport(j) ==
  /\ kick = 0
  /\ jobs[j].at = "save"
  /\ Settle(j, endStreams(jobPush(
       [ job |-> [jobs[j] EXCEPT !.filePath = "export_" \o IntToStr(j) \o ".pptx",
                                 !.status = "done", !.at = "end"],
         streams |-> streams ])))
  /\ UNCHANGED <<exportJobs, kick, reply, files, exports>>
  /\ UNCHANGED plannerVars

\* the await the export stands at rejects: the catch block, then the finally
\* block
FailExport(j) ==
  /\ kick = 0
  /\ jobs[j].at \in Awaits
  /\ Settle(j, endStreams(jobPush(
       [ job |-> [jobs[j] EXCEPT !.status = "error", !.at = "end"],
         streams |-> streams ])))
  /\ UNCHANGED <<exportJobs, kick, reply, files, exports>>
  /\ UNCHANGED plannerVars

\* a response registered as a subscriber without the replay of the buffer
SubscribeLive(s, id) ==
  /\ kick = 0
  /\ streams[s].state = "idle"
  /\ id \in exportJobs
  /\ streams' = [streams EXCEPT ![s] = [job |-> id, state |-> "open", received |-> <<>>]]
  /\ jobs' = [jobs EXCEPT ![id].subscribers = @ \cup {s}]
  /\ UNCHANGED <<exportJobs, kick, reply, files, exports>>
  /\ UNCHANGED plannerVars

\* GET /api/export_job/:id/stream on response s
Subscribe(s, id) ==
  /\ kick = 0
  /\ streams[s].state = "idle"
  /\ IF id \notin exportJobs
     THEN /\ streams' = [streams EXCEPT ![s] = [job |-> id, state |-> "notfound", received |-> <<>>]]
          /\ UNCHANGED jobs
     ELSE /\ streams' = [streams EXCEPT ![s] =
                           [ job |-> id, state |-> "open",
                             received |-> RunConcat(<<>>, jobs[id].events) ]]
          /\ jobs' = [jobs EXCEPT ![id].subscribers = @ \cup {s}]
  /\ UNCHANGED <<exportJobs, kick, reply, files, exports>>
  /\ UNCHANGED plannerVars

\* the client of response s goes away: `req.on('close', ...)`; what it has
\* received goes with it
ClientCloses(s) ==
  /\ kick = 0
  /\ streams[s].state = "open"
  /\ streams' = [streams EXCEPT ![s].state = "closed", ![s].received = <<>>]
  /\ jobs' = [jobs EXCEPT ![streams[s].job].subscribers = @ \ {s}]
  /\ UNCHANGED <<exportJobs, kick, reply, files, exports>>
  /\ UNCHANGED plannerVars

\* GET /api/export_job/:id/pptx
Download(id) ==
  /\ kick = 0
  /\ reply' = IF id \notin exportJobs THEN [code |-> 404, id |-> id]
              ELSE IF jobs[id].status # "done" \/ jobs[id].filePath = ""
                   THEN [code |-> 409, id |-> id]
                   ELSE [code |-> 200, id |-> id, file |-> jobs[id].filePath]
  /\ UNCHANGED <<exportJobs, jobs, kick, streams, files, exports>>
  /\ UNCHANGED plannerVars

\* the job's age passes JOB_TTL_MS
Expire(j) ==
  /\ kick = 0
  /\ j \in exportJobs
  /\ ~jobs[j].aged
  /\ jobs' = [jobs EXCEPT ![j].aged = TRUE]
  /\ UNCHANGED <<exportJobs, kick, streams, reply, files, exports>>
  /\ UNCHANGED plannerVars

\* the sweep of the interval timer
cleanupJobs ==
  /\ kick = 0
  /\ \E j \in exportJobs : jobs[j].aged
  /\ exportJobs' = { j \in exportJobs : ~jobs[j].aged }
  /\ UNCHANGED <<jobs, kick, streams, reply, files, exports>>
  /\ UNCHANGED plannerVars

\* the planner at rest
PlannerIdle ==
  /\ pc = "idle"
  /\ brief = ""
  /\ options = Undef
  /\ extract = Undef
  /\ narrative = Undef
  /\ messaging = Undef
  /\ plan = Undef
  /\ calls = <<>>
  /\ conceptAnswer = Undef
  /\ out = Undef
  /\ out2 = Undef
  /\ response = Undef
  /\ arg = Undef

InitJobs ==
  /\ PlannerIdle
  /\ exportJobs = {}
  /\ jobs = <<>>
  /\ kick = 0
  /\ streams = [s \in 1..MaxStreams |-> IdleStream]
  /\ reply = [code |-> 0]
  /\ files = <<>>
  /\ exports = <<>>

\* the steps of the run's job and of its clients
JobSteps ==
  \/ KickOff
  \/ \E j \in 1..Len(jobs) : Advance(j)
  \/ \E j \in 1..Len(jobs) : SaveExport(j)
  \/ \E j \in 1..Len(jobs) : FailExport(j)
  \/ \E s \in 1..MaxStreams, id \in RequestIds : Subscribe(s, id)
  \/ \E s \in 1..MaxStreams : ClientCloses(s)

NextJobs ==
  \/ \E n \in ShortDecks, thumbs \in BOOLEAN : jobs = <<>> /\ PostExportJob(n, thumbs)
  \/ JobSteps
  \/ \E id \in RequestIds : Download(id)
  \/ \E j \in 1..Len(jobs) : Expire(j)
  \/ cleanupJobs

SpecJobs == InitJobs /\ [][NextJobs]_vars

\* an await of a running export resolves or rejects in the end
SpecJobsFair ==
  /\ SpecJobs
  /\ WF_vars(KickOff)
  /\ WF_vars(\E j \in 1..Len(jobs) : Advance(j) \/ SaveExport(j) \/ FailExport(j))

\* the export of a long deck, watched by its streams
NextStream ==
  \/ jobs = <<>> /\ PostExportJob(LongDeck, TRUE)
  \/ JobSteps

SpecStream == InitJobs /\ [][NextStream]_vars


-----------------------------------------------------------------------------
(* Properties of the export jobs (SpecJobs, SpecJobsFair, SpecStream).     *)

\* the moves of a job's status
StatusMoves == {<<"queued", "running">>, <<"running", "done">>, <<"running", "error">>}

\* C27: the status of an export job only moves queued -> running -> done or
\* queued -> running -> error, done and error are final, filePath is set only
\* for a done job, and GET /api/export_job/:id/pptx serves the file only when
\* the job is in the map with status done and filePath set: it answers 409 for
\* any other job of the map and 404 for an id that is not in the map (never
\* created, or swept once expired).
C27_JobLifecycle ==
  [][ /\ \A j \in 1..Len(jobs') :
           /\ IF j > Len(jobs) THEN jobs'[j].status = "queued"
              ELSE \/ jobs'[j].status = jobs[j].status
                   \/ <<jobs[j].status, jobs'[j].status>> \in StatusMoves
           /\ jobs'[j].filePath # "" => jobs'[j].status = "done"
      /\ reply' # reply =>
           LET known == reply'.id \in exportJobs
               ready == known /\ jobs[reply'.id].status = "done" /\ jobs[reply'.id].filePath # ""
           IN /\ reply'.code = 200 <=> ready
              /\ reply'.code = 409 <=> (known /\ ~ready)
              /\ reply'.code = 404 <=> ~known ]_vars

\* the file of a done job has been served
C27_Witness ==
  /\ reply.code = 200
  /\ jobs[reply.id].status = "done"
  /\ reply.file = jobs[reply.id].filePath
  /\ reply.file # ""


\* stream s is open on a job that is done or has failed
OpenOnFinishedJob(s) ==
  /\ streams[s].state = "open"
  /\ jobs[streams[s].job].status \in {"done", "error"}

\* C28: every SSE stream of an export job, whenever it was opened, is ended
\* by the server once the job is done or has failed: no stream stays open for
\* a finished job (a stream whose client has gone away is not open either).
C28_StreamsEndedOnceTerminal ==
  \A s \in 1..MaxStreams : OpenOnFinishedJob(s) ~> (streams[s].state # "open")


\* stream s has been served by its job and its client is still there
Served(s) == streams[s].state \in {"open", "ended"}

\* the events 1..n, in order, once each
AllEvents(n) == IF n = 0 THEN <<>> ELSE <<<<1, n>>>>

\* C29: a stream that connects at any point has received every event its job
\* has emitted since its start, each exactly once and in emission order,
\* whatever the number of events emitted before it connected.
C29_StreamReceivesEveryEvent ==
  \A s \in 1..MaxStreams :
    Served(s) => streams[s].received = AllEvents(jobs[streams[s].job].emitted)

\* C29 (as the buffer behaves): a stream that connects at any point has
\* received a single gapless run of events, each exactly once and in emission
\* order, that ends with the last event emitted; the run starts with the
\* job's first event unless more than MaxBufferedEvents events had been
\* emitted when the stream connected, and then it holds at least the
\* MaxBufferedEvents events emitted last before it connected.
C29_StreamReceivesBufferedThenLive ==
  \A s \in 1..MaxStreams :
    Served(s) =>
      LET got == streams[s].received
          n == jobs[streams[s].job].emitted
      IN \/ got = AllEvents(n)
         \/ /\ Len(got) = 1
            /\ got[1][2] = n
            /\ got[1][1] > 1
            /\ n - got[1][1] + 1 >= MaxBufferedEvents

\* a stream that connected after the buffer had dropped events has gone on
\* receiving live events; another one connected early and has them all
C29_Witness ==
  /\ streams[1].state = "open"
  /\ streams[1].received # <<>>
  /\ streams[1].received[1][1] > 1
  /\ RunCount(streams[1].received) > MaxBufferedEvents
  /\ streams[2].state = "open"
  /\ streams[2].received = AllEvents(jobs[1].emitted)


-----------------------------------------------------------------------------
(* Exports and the temp directory they share (generateImages, coverImage,  *)
(* exportPptx).  Every slide has an image prompt and is laid out full      *)
(* slide, so every crop has the same pixel size.  The content of an image  *)
(* file is written <<e, i>>: the image generated for slide i of export e.  *)

\* exports in flight at once, slides of each plan
MaxExports == 2
DeckSlides == 2

\* `img_${p.idx}.jpg` in tmpDir
ImageFile(i) == "img_" \o IntToStr(i) \o ".jpg"

\* `cover_${cache.size}_${outW}x${outH}.jpg` in tmpDir, for the full-slide size
CoverFile(n) == "cover_" \o IntToStr(n) \o "_1920x1080.jpg"

\* the directory once content is written to name
WriteFile(dir, name, content) ==
  [f \in DOMAIN dir \cup {name} |-> IF f = name THEN content ELSE dir[f]]

\* an exportPptx run that has not started
IdleExport ==
  [ at |-> "idle",
    made |-> {},       \* slides whose image generateImages has written
    cache |-> <<>>,    \* imgCropCache: the output path of each crop, in order
    placed |-> <<>> ]  \* the image content the written deck carries, by slide

\* exportPptx is called: theme and presentation are set up, generateImages
\* starts
StartExport(e) ==
  /\ exports[e].at = "idle"
  /\ exports' = [exports EXCEPT ![e].at = "images"]
  /\ UNCHANGED <<exportJobs, jobs, kick, streams, reply, files>>
  /\ UNCHANGED plannerVars

\* one limited call of generateImages: the image of slide i arrives and is
\* cover-cropped into img_<i>.jpg
GenerateImage(e, i) ==
  /\ exports[e].at = "images"
  /\ i \notin exports[e].made
  /\ files' = WriteFile(files, ImageFile(i), <<e, i>>)
  /\ exports' = [exports EXCEPT ![e].made = @ \cup {i},
                               ![e].at = IF exports[e].made \cup {i} = 0..(DeckSlides - 1)
                                         THEN "render" ELSE "images"]
  /\ UNCHANGED <<exportJobs, jobs, kick, streams, reply>>
  /\ UNCHANGED plannerVars

\* one turn of the rendering loop: coverImage crops the slide's image file
\* into the next cover file, and the slide refers to that path
RenderSlide(e) ==
  /\ exports[e].at = "render"
  /\ LET i == Len(exports[e].cache)
         outPath == CoverFile(i)
     IN /\ files' = WriteFile(files, outPath, files[ImageFile(i)])
        /\ exports' = [exports EXCEPT ![e].cache = Append(@, outPath),
                                     ![e].at = IF i + 1 = DeckSlides THEN "write" ELSE "render"]
  /\ UNCHANGED <<exportJobs, jobs, kick, streams, reply>>
  /\ UNCHANGED plannerVars

\* pptx.write: the presentation is packed with the files its slides refer to
WriteDeck(e) ==
  /\ exports[e].at = "write"
  /\ exports' = [exports EXCEPT ![e].placed = [i \in 1..DeckSlides |-> files[exports[e].cache[i]]],
                               ![e].at = "done"]
  /\ UNCHANGED <<exportJobs, jobs, kick, streams, reply, files>>
  /\ UNCHANGED plannerVars

InitTemp ==
  /\ PlannerIdle
  /\ exportJobs = {}
  /\ jobs = <<>>
  /\ kick = 0
  /\ streams = <<>>
  /\ reply = [code |-> 0]
  /\ files = <<>>
  /\ exports = [e \in 1..MaxExports |-> IdleExport]

NextTemp ==
  \/ \E e \in 1..MaxExports : StartExport(e)
  \/ \E e \in 1..MaxExports, i \in 0..(DeckSlides - 1) : GenerateImage(e, i)
  \/ \E e \in 1..MaxExports : RenderSlide(e)
  \/ \E e \in 1..MaxExports : WriteDeck(e)

SpecTemp == InitTemp /\ [][NextTemp]_vars

\* C30: two exports that run at the same time do not interfere through the
\* shared temp directory: the image the deck of an export carries on slide i
\* is the image generated, and cover-cropped, for slide i of that export.
C30_ExportsDoNotInterfere ==
  \A e \in 1..MaxExports :
    exports[e].at = "done" =>
      \A i \in 1..DeckSlides : exports[e].placed[i] = <<e, i - 1>>

====
